---- MODULE Spec2Model ----
(***************************************************************************)
(* proxyme: the per-connection SOCKS5 protocol engine (RFC 1928 / 1929 /   *)
(* 1961).  One connection is modelled: the transition functions of         *)
(* protocol.go driven by the loop of Server.handle, the wire codec of      *)
(* messages.go, the auth handlers of auth.go and the handler table built   *)
(* by New.  Bytes are naturals 0..255, byte strings are sequences.         *)
(***************************************************************************)
EXTENDS Integers, Sequences, FiniteSets, TLC

(* ---------------------------------------------------------------------- *)
(* Bounds of the model                                                     *)
(* ---------------------------------------------------------------------- *)
MaxMethods == 2      \* longest method list a client offers
MaxWrap == 1         \* deepest fmt.Errorf("%w") wrapping of a callback error
MaxGssRounds == 1    \* most iterations of the GSS context loop
MaxRelay == 2        \* most bytes each peer sends through the relay

(* ---------------------------------------------------------------------- *)
(* Program constants                                                       *)
(* ---------------------------------------------------------------------- *)
protoVersion == 5
subnVersion == 1

typeNoAuth == 0
typeGSSAPI == 1
typeLogin == 2
typeError == 255

ipv4 == 1
domainName == 3
ipv6 == 4

connect == 1
bind == 2
udpAssoc == 3

succeeded == 0
sockFailure == 1
notAllowed == 2
networkUnreachable == 3
hostUnreachable == 4
connectionRefused == 5
ttlExpired == 6
notSupported == 7
addressNotSupported == 8

success == 0
denied == 255

gssAuthentication == 1
gssProtection == 2
gssEncapsulation == 3
gssMaxTokenSize == 65535
maxChunkSize == 65531

IPv4len == 4
IPv6len == 16

(* ---------------------------------------------------------------------- *)
(* Byte-string helpers                                                     *)
(* ---------------------------------------------------------------------- *)
Take(s, k) == SubSeq(s, 1, IF k < Len(s) THEN k ELSE Len(s))
Drop(s, k) == SubSeq(s, k + 1, Len(s))
IsPrefix(p, s) == Len(p) <= Len(s) /\ SubSeq(s, 1, Len(p)) = p
Prefixes(s) == { SubSeq(s, 1, k) : k \in 0..Len(s) }
ProperPrefixes(s) == { SubSeq(s, 1, k) : k \in 0..(Len(s) - 1) }

\* binary.BigEndian encoding of a uint16
U16(v) == << (v % 65536) \div 256, v % 256 >>
\* the two bytes taken low byte first
FromU16_le(b) == b[2] * 256 + b[1]

\* binary.BigEndian decoding of two bytes
FromU16(b) == b[1] * 256 + b[2]

\* errors are chains, outermost wrapper first; the empty chain is nil
NoErr == << >>
Wrap(tag, e) == << tag >> \o e
\* errors.Is: some error of the chain is the target
errorsIs(e, target) == \E i \in 1..Len(e) : e[i] = target
(* ---------------------------------------------------------------------- *)
(* Wire codec (messages.go).  A reader takes the bytes the peer has sent   *)
(* and returns the byte count, the error and the frame decoded so far.     *)
(* ---------------------------------------------------------------------- *)
\* the error of reading `want` bytes when `avail` are left (io.ReadFull)
ReadFullErr(avail, want) ==
    IF want = 0 \/ avail >= want THEN NoErr
    ELSE IF avail = 0 THEN << "EOF" >> ELSE << "ErrUnexpectedEOF" >>

authRequestReadFrom(bs) ==
    IF Len(bs) < 1 THEN
        [n |-> 0, err |-> << "EOF" >>, msg |-> [version |-> 0, methods |-> << >>]]
    ELSE IF Len(bs) < 2 THEN
        [n |-> 1, err |-> << "EOF" >>, msg |-> [version |-> bs[1], methods |-> << >>]]
    ELSE
        LET size == bs[2]
            got == IF Len(bs) - 2 < size THEN Len(bs) - 2 ELSE size
        IN [n |-> 2 + got,
            err |-> IF got < size THEN << "EOF" >> ELSE NoErr,
            msg |-> [version |-> bs[1],
                     methods |-> [i \in 1..size |-> IF i <= got THEN bs[2 + i] ELSE 0]]]

authRequestValidate(a) ==
    IF a.version # protoVersion THEN << "invalid authenticate.version" >>
    ELSE IF Len(a.methods) = 0 THEN << "empty authenticate.methods" >>
    ELSE NoErr

\* the reply with its two fields in the wrong order
authReplyBytes_swapped(a) == << a.method, protoVersion >>

authReplyBytes(a) == << protoVersion, a.method >>

ZeroCommand ==
    [version |-> 0, commandType |-> 0, rsv |-> 0, addressType |-> 0,
     addr |-> << >>, port |-> 0]

\* a reader that goes on past any address type
knownAddressType_any(t) == TRUE

\* a reader that takes the address type 0 for a known one
knownAddressType_zero(t) == t \in {0, ipv4, ipv6, domainName}

\* the address types the reader's switch has a case for
knownAddressType(t) == t \in {ipv4, ipv6, domainName}

commandRequestReadFrom(bs) ==
    LET hdr == Take(bs, 4)
        c0 == [ZeroCommand EXCEPT
                 !.version = IF Len(bs) >= 1 THEN bs[1] ELSE 0,
                 !.commandType = IF Len(bs) >= 2 THEN bs[2] ELSE 0,
                 !.rsv = IF Len(bs) >= 3 THEN bs[3] ELSE 0,
                 !.addressType = IF Len(bs) >= 4 THEN bs[4] ELSE 0]
    IN IF Len(bs) < 4 THEN [n |-> Len(hdr), err |-> << "EOF" >>, msg |-> c0]
       ELSE IF ~knownAddressType(c0.addressType) THEN
            [n |-> 4, err |-> << "errInvalidAddrType" >>, msg |-> c0]
       ELSE IF c0.addressType = domainName /\ Len(bs) < 5 THEN
            [n |-> 4, err |-> << "EOF" >>, msg |-> c0]
       ELSE
            LET pre == IF c0.addressType = domainName THEN 5 ELSE 4
                size == IF c0.addressType = ipv4 THEN IPv4len
                        ELSE IF c0.addressType = ipv6 THEN IPv6len
                        ELSE bs[5]
                rest == Drop(bs, pre)
                got == IF Len(rest) < size THEN Len(rest) ELSE size
                addr == [i \in 1..size |-> IF i <= got THEN rest[i] ELSE 0]
                aerr == ReadFullErr(Len(rest), size)
                tail == Drop(rest, size)
            IN IF aerr # NoErr THEN
                    [n |-> pre, err |-> aerr, msg |-> [c0 EXCEPT !.addr = addr]]
               ELSE IF Len(tail) < 2 THEN
                    [n |-> pre + size, err |-> ReadFullErr(Len(tail), 2),
                     msg |-> [c0 EXCEPT !.addr = addr]]
               ELSE [n |-> pre + size + 2, err |-> NoErr,
                     msg |-> [c0 EXCEPT !.addr = addr,
                                        !.port = FromU16(SubSeq(tail, 1, 2))]]

\* validate without its test of the port
commandRequestValidate_anyPort(c) ==
    IF c.version # protoVersion THEN << "invalid command.version" >>
    ELSE IF c.rsv # 0 THEN << "invalid command.rsv" >>
    ELSE IF c.addressType \notin {ipv4, ipv6, domainName} THEN
        << "invalid", "errInvalidAddrType" >>
    ELSE IF Len(c.addr) = 0
            \/ (c.addressType = ipv4 /\ Len(c.addr) # IPv4len)
            \/ (c.addressType = ipv6 /\ Len(c.addr) # IPv6len) THEN
        << "invalid addr" >>
    ELSE NoErr

commandRequestValidate(c) ==
    IF c.version # protoVersion THEN << "invalid command.version" >>
    ELSE IF c.rsv # 0 THEN << "invalid command.rsv" >>
    ELSE IF c.addressType \notin {ipv4, ipv6, domainName} THEN
        << "invalid", "errInvalidAddrType" >>
    ELSE IF Len(c.addr) = 0
            \/ (c.addressType = ipv4 /\ Len(c.addr) # IPv4len)
            \/ (c.addressType = ipv6 /\ Len(c.addr) # IPv6len) THEN
        << "invalid addr" >>
    ELSE IF c.port = 0 THEN << "invalid port" >>
    ELSE NoErr

\* commandReply.WriteTo against a writer that never fails: the bytes it
\* emits and the error it returns.  The four header bytes are written
\* before the address is checked.
\* a writer that takes any address for an IP address
sizeMismatch_never(size, addr) == FALSE

\* int(size) != len(r.addr), the check of the two IP cases
sizeMismatch(size, addr) == size # Len(addr)

commandReplyWriteTo(r) ==
    LET hdr == << protoVersion, r.rep, r.rsv, r.addressType >>
        bad == [bytes |-> hdr, n |-> 4, err |-> << "errInvalidAddrType" >>]
    IN IF r.addressType = ipv4 \/ r.addressType = ipv6 THEN
            LET size == IF r.addressType = ipv4 THEN IPv4len ELSE IPv6len
            IN IF sizeMismatch(size, r.addr) THEN bad
               ELSE [bytes |-> hdr \o Take(r.addr, size) \o U16(r.port),
                     n |-> 4 + Len(r.addr) + 2, err |-> NoErr]
       ELSE IF r.addressType = domainName THEN
            LET size == Len(r.addr) % 256
            IN [bytes |-> hdr \o << size >> \o Take(r.addr, size) \o U16(r.port),
                n |-> 4 + 1 + Len(r.addr) + 2, err |-> NoErr]
       ELSE bad

loginRequestReadFrom(bs) ==
    LET z == [version |-> 0, username |-> << >>, password |-> << >>]
    IN IF Len(bs) < 2 THEN
            [n |-> Len(bs), err |-> << "EOF" >>,
             msg |-> [z EXCEPT !.version = IF Len(bs) >= 1 THEN bs[1] ELSE 0]]
       ELSE
            LET usize == bs[2]
                r1 == Drop(bs, 2)
                user == [i \in 1..usize |-> IF i <= Len(r1) THEN r1[i] ELSE 0]
                uerr == ReadFullErr(Len(r1), usize)
                r2 == Drop(r1, usize)
            IN IF uerr # NoErr THEN
                    [n |-> 2, err |-> uerr,
                     msg |-> [z EXCEPT !.version = bs[1], !.username = user]]
               ELSE IF Len(r2) < 1 THEN
                    [n |-> 2 + usize, err |-> << "EOF" >>,
                     msg |-> [z EXCEPT !.version = bs[1], !.username = user]]
               ELSE
                    LET psize == r2[1]
                        r3 == Drop(r2, 1)
                        pass == [i \in 1..psize |-> IF i <= Len(r3) THEN r3[i] ELSE 0]
                        perr == ReadFullErr(Len(r3), psize)
                    IN [n |-> IF perr = NoErr THEN 3 + usize + psize ELSE 3 + usize,
                        err |-> perr,
                        msg |-> [version |-> bs[1], username |-> user,
                                 password |-> pass]]

\* validate without its test of the password
loginRequestValidate_anyPassword(r) ==
    IF r.version # subnVersion THEN << "invalid subnegotion version" >>
    ELSE IF Len(r.username) = 0 THEN << "empty username" >>
    ELSE NoErr

loginRequestValidate(r) ==
    IF r.version # subnVersion THEN << "invalid subnegotion version" >>
    ELSE IF Len(r.username) = 0 THEN << "empty username" >>
    ELSE IF Len(r.password) = 0 THEN << "empty password" >>
    ELSE NoErr

\* a reply that always reports success
loginReplyBytes_ok(l) == << subnVersion, success >>

loginReplyBytes(l) == << subnVersion, l.status >>

\* gssapiMessage.WriteTo for a token within gssMaxTokenSize; the version
\* byte written is always subnVersion
gssapiMessageBytes(m) ==
    << subnVersion, m.messageType >> \o U16(Len(m.token)) \o m.token

\* gssapiMessage.WriteTo into a writer that never fails (a bytes.Buffer):
\* the two header bytes are written before the token size is looked at
gssapiMessageWriteTo(m) ==
    LET head == << subnVersion, m.messageType >>
    IN IF Len(m.token) > gssMaxTokenSize
       THEN [bytes |-> head, n |-> 2, err |-> << "to big token size" >>]
       ELSE [bytes |-> head \o U16(Len(m.token)) \o m.token,
             n |-> 4 + Len(m.token), err |-> NoErr]

gssapiMessageReadFrom(bs) ==
    LET z == [version |-> 0, messageType |-> 0, token |-> << >>]
        m0 == [z EXCEPT !.version = IF Len(bs) >= 1 THEN bs[1] ELSE 0,
                        !.messageType = IF Len(bs) >= 2 THEN bs[2] ELSE 0]
    IN IF Len(bs) < 2 THEN [n |-> Len(bs), err |-> << "EOF" >>, msg |-> m0]
       ELSE IF Len(bs) < 4 THEN
            [n |-> 2, err |-> ReadFullErr(Len(bs) - 2, 2), msg |-> m0]
       ELSE
            LET size == FromU16(SubSeq(bs, 3, 4))
                rest == Drop(bs, 4)
                tok == [i \in 1..size |-> IF i <= Len(rest) THEN rest[i] ELSE 0]
                terr == ReadFullErr(Len(rest), size)
            IN [n |-> IF terr = NoErr THEN 4 + size ELSE 4, err |-> terr,
                msg |-> [m0 EXCEPT !.token = tok]]

gssapiMessageValidate(m, messageType) ==
    IF m.version # subnVersion THEN << "invalid subnegotion version" >>
    ELSE IF Len(m.token) > 65535 THEN << "too big token size" >>
    ELSE IF m.messageType # messageType THEN << "invalid gssapi message type" >>
    ELSE NoErr
(* ---------------------------------------------------------------------- *)
(* Handler table (New) and auth handlers' method codes                     *)
(* ---------------------------------------------------------------------- *)
\* New: the table is filled option by option; a later assignment to the
\* same key replaces the earlier handler
authMethods(o) ==
    LET m0 == [k \in {} |-> "none"]
        m1 == IF o.AllowNoAuth
              THEN [k \in DOMAIN m0 \cup {typeNoAuth} |->
                        IF k = typeNoAuth THEN "noAuth" ELSE m0[k]]
              ELSE m0
        m2 == IF o.Authenticate
              THEN [k \in DOMAIN m1 \cup {typeLogin} |->
                        IF k = typeLogin THEN "usernameAuth" ELSE m1[k]]
              ELSE m1
        m3 == IF o.GSSAPI
              THEN [k \in DOMAIN m2 \cup {typeLogin} |->
                        IF k = typeLogin THEN "gssapiAuth" ELSE m2[k]]
              ELSE m2
    IN m3

\* authHandler.method()
handlerMethod(h) ==
    CASE h = "noAuth" -> typeNoAuth
      [] h = "usernameAuth" -> typeLogin
      [] h = "gssapiAuth" -> typeGSSAPI

\* New accepting a configuration with no authentication method
NewOk_always(o) == TRUE

\* New fails when no authentication method is enabled
NewOk(o) == DOMAIN authMethods(o) # {}

\* the idle limit New falls back to, in minutes
defaultMaxConnIdle == 3

\* Options{}: nothing set
ZeroOptions ==
    [AllowNoAuth |-> FALSE, Authenticate |-> FALSE, GSSAPI |-> FALSE,
     Connect |-> FALSE, listen |-> FALSE, MaxConnIdle |-> 0]

\* before New has been called
NotCalled ==
    [called |-> FALSE, err |-> NoErr, auth |-> authMethods(ZeroOptions),
     connect |-> "nil", listen |-> FALSE, maxConnIdle |-> 0]

\* New: the error, or the server with its handler table, its connect
\* function, its BIND backend and its idle limit
New(o) ==
    IF ~NewOk(o) THEN
        [NotCalled EXCEPT !.called = TRUE,
                          !.err = << "none of socks5 authenticate method are specified" >>]
    ELSE [called |-> TRUE, err |-> NoErr, auth |-> authMethods(o),
          connect |-> IF o.Connect THEN "opts.Connect" ELSE "defaultConnect",
          listen |-> o.listen,
          maxConnIdle |-> IF o.MaxConnIdle > 0 THEN o.MaxConnIdle
                          ELSE defaultMaxConnIdle]

\* the configurations New is called with
AllOptions ==
    [AllowNoAuth : BOOLEAN, Authenticate : BOOLEAN, GSSAPI : BOOLEAN,
     Connect : BOOLEAN, listen : BOOLEAN, MaxConnIdle : { -1, 0, 1, 5 }]

(* ---------------------------------------------------------------------- *)
(* Network addresses and parseAddress                                      *)
(* ---------------------------------------------------------------------- *)
NoAddr == [tcp |-> FALSE, ip |-> << >>, port |-> 0]

\* net.IP.To4: the 4-byte form of an IPv4 or IPv4-mapped address, else nil
To4(ip) ==
    IF Len(ip) = IPv4len THEN ip
    ELSE IF Len(ip) = IPv6len
            /\ (\A i \in 1..10 : ip[i] = 0) /\ ip[11] = 255 /\ ip[12] = 255
         THEN SubSeq(ip, 13, 16)
    ELSE << >>

\* parseAddress without the To4 test: every TCP address is reported as IPv6
parseAddress_noTo4(a) ==
    IF ~a.tcp THEN
        [addressType |-> 0, ip |-> << >>, port |-> 0, err |-> << "it is not tcp addr" >>]
    ELSE [addressType |-> ipv6, ip |-> a.ip, port |-> a.port, err |-> NoErr]

\* parseAddress without the type assertion: any address is taken as TCP
parseAddress_anyNetwork(a) ==
    IF Len(To4(a.ip)) = IPv4len THEN
        [addressType |-> ipv4, ip |-> To4(a.ip), port |-> a.port, err |-> NoErr]
    ELSE [addressType |-> ipv6, ip |-> a.ip, port |-> a.port, err |-> NoErr]

parseAddress(a) ==
    IF ~a.tcp THEN
        [addressType |-> 0, ip |-> << >>, port |-> 0, err |-> << "it is not tcp addr" >>]
    ELSE IF Len(To4(a.ip)) = IPv4len THEN
        [addressType |-> ipv4, ip |-> To4(a.ip), port |-> a.port, err |-> NoErr]
    ELSE [addressType |-> ipv6, ip |-> a.ip, port |-> a.port, err |-> NoErr]

(* ---------------------------------------------------------------------- *)
(* What the environment can do: client bytes, host callbacks, the wire     *)
(* ---------------------------------------------------------------------- *)
MethodCodes == {typeNoAuth, typeGSSAPI, typeLogin}

RECURSIVE SeqsUpTo(_, _)
SeqsUpTo(S, k) ==
    IF k = 0 THEN { << >> }
    ELSE LET shorter == SeqsUpTo(S, k - 1)
         IN shorter \cup { Append(q, x) : q \in shorter, x \in S }

AuthRequestFrames ==
    { << v, Len(ms) >> \o ms :
        v \in {protoVersion, 4}, ms \in SeqsUpTo(MethodCodes, MaxMethods) }

\* every frame a client may send in the method stage, whole or cut short
AuthRequestInputs ==
    AuthRequestFrames \cup UNION { ProperPrefixes(f) : f \in AuthRequestFrames }

AddrV4 == << 192, 168, 0, 1 >>
AddrV6 == << 32, 1, 13, 184, 0, 0, 0, 0, 0, 0, 0, 0, 0, 0, 0, 1 >>
AddrName == << 97 >>

\* ATYP byte followed by the address field as it travels
WireAddrs ==
    { << ipv4 >> \o AddrV4, << ipv6 >> \o AddrV6,
      << domainName, Len(AddrName) >> \o AddrName, << domainName, 0 >> }

Ports == {0, 8080}

CommandFrames ==
    { << v, c, r >> \o a \o U16(p) :
        v \in {protoVersion, 4}, c \in {connect, bind, udpAssoc, 4},
        r \in {0, 1}, a \in WireAddrs, p \in Ports }
    \cup { << protoVersion, c, 0, 34, 1, 97 >> \o U16(8080) : c \in {connect, bind} }

WellFormedCommandFrames ==
    { f \in CommandFrames :
        LET r == commandRequestReadFrom(f)
        IN r.err = NoErr /\ commandRequestValidate(r.msg) = NoErr }

CommandInputs ==
    CommandFrames \cup UNION { ProperPrefixes(f) : f \in WellFormedCommandFrames }

User == << 102 >>
Pass == << 98 >>
LoginFrames ==
    { << v, Len(u) >> \o u \o << Len(q) >> \o q :
        v \in {subnVersion, 5}, u \in { User, << >> }, q \in { Pass, << >> } }
LoginInputs ==
    LoginFrames \cup ProperPrefixes(<< subnVersion, 1 >> \o User \o << 1 >> \o Pass)

\* addresses a socket handed over by the host may report
NetAddrs ==
    { [tcp |-> TRUE, ip |-> << 10, 0, 0, 1 >>, port |-> 40000],
      [tcp |-> TRUE, ip |-> << 0, 0, 0, 0, 0, 0, 0, 0, 0, 0, 255, 255, 10, 0, 0, 2 >>,
       port |-> 40001],
      [tcp |-> TRUE, ip |-> AddrV6, port |-> 40002],
      [tcp |-> FALSE, ip |-> << 10, 0, 0, 1 >>, port |-> 40003] }

Sentinels ==
    { "ErrNotAllowed", "ErrHostUnreachable", "ErrConnectionRefused",
      "ErrNetworkUnreachable", "ErrTTLExpired" }

RECURSIVE Wrapped(_, _)
Wrapped(e, k) == IF k = 0 THEN e ELSE Wrap("wrapped", Wrapped(e, k - 1))

\* errors a CONNECT callback may return: a sentinel or any other error,
\* bare or wrapped with %w
ConnectErrors ==
    { Wrapped(<< leaf >>, k) : leaf \in Sentinels \cup { "other" }, k \in 0..MaxWrap }

\* what a frame write can leave on the wire: all of it, or a proper prefix
\* followed by a write error
WriteOutcomes(bytes) ==
    { [bytes |-> bytes, err |-> NoErr] }
    \cup { [bytes |-> p, err |-> << "io" >>] : p \in ProperPrefixes(bytes) }
(* ---------------------------------------------------------------------- *)
(* The relay (link): "up" is the goroutine copying client to target,       *)
(* "down" the caller copying target to client                              *)
(* ---------------------------------------------------------------------- *)
\* io.Copy(dst, src) of each direction
copySrc(d) == IF d = "up" THEN "client" ELSE "target"

\* a copy that writes back to the stream it reads from
copyDst_echo(d) == copySrc(d)

copyDst(d) == IF d = "up" THEN "target" ELSE "client"

\* only the caller closing, and both streams at once, when its own copy
\* ends; the goroutine closes nothing
closedBy_callerOnly(d) == IF d = "down" THEN { "client", "target" } ELSE { }

\* each direction closing both streams when its copy ends
closedBy_both(d) == { "client", "target" }

\* the streams a direction closes when its copy ends: the goroutine closes
\* dst, the caller closes src, each the destination of its own copy
closedBy(d) == { copyDst(d) }

\* the k bytes a peer sends, all different
RelayBytes(base, k) == [i \in 1..k |-> base + i]

\* a relay with the given bytes still to come from the client and from the
\* target, both directions about to read
StartRelay(fromClient, fromTarget) ==
    [pc |-> [up |-> "read", down |-> "read"],
     buf |-> [up |-> << >>, down |-> << >>],
     pending |-> [up |-> fromClient, down |-> fromTarget],
     out |-> [client |-> << >>, target |-> << >>],
     closes |-> [client |-> 0, target |-> 0],
     ended |-> << >>,
     returned |-> FALSE]

\* no relay running
NoRelay ==
    [StartRelay(<< >>, << >>) EXCEPT !.pc = [up |-> "done", down |-> "done"]]

\* no gssConn in use
NoGss == [active |-> FALSE, p0 |-> << >>, wp |-> << >>, wn |-> 0,
          wpc |-> "returned", werr |-> NoErr, pipe |-> << >>, wire |-> << >>,
          buffer |-> << >>, delivered |-> << >>, consumed |-> << >>,
          frames |-> 0, rpc |-> "ended", rerr |-> NoErr]

\* no frame in the codec
NoCodec == [op |-> "none"]

\* no GSSAPI negotiation
NoGauth ==
    [pc |-> "none", iter |-> 0, msg |-> << >>, accepted |-> << >>,
     data |-> << >>, lvl |-> 0, token |-> << >>, log |-> << >>,
     err |-> NoErr, conn |-> "raw"]

\* no cache
NoLru == [active |-> FALSE, size |-> 0, cache |-> << >>, hist |-> << >>]

\* no wrapped socket
NoConn == [active |-> FALSE, timeout |-> 0, now |-> 0, deadline |-> << >>,
           lastStart |-> << >>]

(* ---------------------------------------------------------------------- *)
(* State of one connection                                                 *)
(* ---------------------------------------------------------------------- *)
VARIABLES
    opts,      \* Options given to New (fixed for the connection)
    pc,        \* the transition Server.handle runs next; "done" is nil
    conn,      \* state.conn: "raw" client stream or the "gss" wrapper
    methods,   \* state.methods
    method,    \* state.method: the chosen handler, "none" before the choice
    command,   \* state.command
    status,    \* state.status
    err,       \* the error returned by the last transition
    reported,  \* errors printed by Server.handle, in order
    socks,     \* sockets of the connection: "none", "open" or "closed"
    trace,     \* reads, writes and host calls of the connection, in order
    options,   \* the Options of a call of New
    server,    \* what that call of New returned
    relay,     \* one run of link: its two copy directions and both streams
    gss,       \* one gssConn, the raw stream under it and its two users
    codec,     \* one frame handed to a reader or a writer of the codec
    tconn,     \* one tcpConnWithTimeout, the clock and the socket's deadline
    gauth,     \* one run of gssapiAuth.auth, statement by statement
    lru        \* one lru cache and the goroutines calling it

vars == << opts, pc, conn, methods, method, command, status, err, reported,
           socks, trace, options, server, relay, gss, codec, tconn,
           gauth, lru >>

\* the variables a connection's negotiation leaves alone
aux == << options, server, relay, gss, codec, tconn, gauth, lru >>

\* one entry of the trace
Event(kind, name, bytes, ok) ==
    [ev |-> kind, name |-> name, bytes |-> bytes, ok |-> ok, via |-> conn,
     addr |-> NoAddr, e |-> NoErr]
\* a read event carries the bytes the reader consumed
ReadEv(name, bs, r) == Event("read", name, Take(bs, r.n), r.err = NoErr)
WriteEv(name, w) == Event("write", name, w.bytes, w.err = NoErr)
CallEv(name, e) == [Event("call", name, << >>, e = NoErr) EXCEPT !.e = e]
CallAddrEv(name, a) == [Event("call", name, << >>, TRUE) EXCEPT !.addr = a]

\* Server.handle: run the returned transition until it is nil; the error of
\* a transition is printed when the next pass of the loop starts
Return(next, e) ==
    /\ pc' = next
    /\ err' = e
    /\ reported' = IF next # "done" /\ e # NoErr THEN Append(reported, e)
                   ELSE reported

Init ==
    /\ opts \in { o \in [AllowNoAuth : BOOLEAN, Authenticate : BOOLEAN,
                         GSSAPI : BOOLEAN, listen : BOOLEAN] : NewOk(o) }
    /\ pc = "initial"
    /\ conn = "raw"
    /\ methods = << >>
    /\ method = "none"
    /\ command = ZeroCommand
    /\ status = succeeded
    /\ err = NoErr
    /\ reported = << >>
    /\ socks = [client |-> "open", target |-> "none", listener |-> "none"]
    /\ trace = << >>
    /\ options = ZeroOptions
    /\ server = NotCalled
    /\ relay = NoRelay
    /\ gss = NoGss
    /\ codec = NoCodec
    /\ tconn = NoConn
    /\ gauth = NoGauth
    /\ lru = NoLru

(* ---------------------------------------------------------------------- *)
(* Negotiation                                                             *)
(* ---------------------------------------------------------------------- *)
\* method choice by the server's preference: the lowest configured code
\* among the offered ones
chooseMethod_serverOrder(ms, table) ==
    LET common == { ms[i] : i \in 1..Len(ms) } \cap DOMAIN table
    IN IF common = {} THEN "none"
       ELSE table[CHOOSE k \in common : \A j \in common : k <= j]

\* the handler of the first offered code that has one, "none" when no
\* offered code has a handler
RECURSIVE chooseMethod(_, _)
chooseMethod(ms, table) ==
    IF ms = << >> THEN "none"
    ELSE IF Head(ms) \in DOMAIN table THEN table[Head(ms)]
    ELSE chooseMethod(Tail(ms), table)

initial ==
    /\ pc = "initial"
    /\ \E bs \in AuthRequestInputs :
         LET r == authRequestReadFrom(bs)
             v == authRequestValidate(r.msg)
             h == chooseMethod(r.msg.methods, authMethods(opts))
         IN /\ trace' = Append(trace, ReadEv("authRequest", bs, r))
            /\ IF r.err # NoErr THEN
                    /\ Return("done", Wrap("sock read", r.err))
                    /\ UNCHANGED << methods, method >>
               ELSE IF v # NoErr THEN
                    /\ Return("done", v)
                    /\ UNCHANGED << methods, method >>
               ELSE /\ methods' = r.msg.methods
                    /\ IF h # "none"
                       THEN method' = h /\ Return("authenticate", NoErr)
                       ELSE UNCHANGED method /\ Return("failAuth", NoErr)
    /\ UNCHANGED << aux, opts, conn, command, status, socks >>

failAuth ==
    /\ pc = "failAuth"
    /\ \E w \in WriteOutcomes(authReplyBytes([method |-> typeError])) :
         /\ trace' = Append(trace, WriteEv("authReply", w))
         /\ IF w.err # NoErr THEN Return("done", Wrap("sock write", w.err))
            ELSE Return("done", << "rejected authenticate methods" >>)
    /\ UNCHANGED << aux, opts, conn, methods, method, command, status, socks >>
(* ---------------------------------------------------------------------- *)
(* Auth handlers.  Each gives the set of ways its auth can run: the events *)
(* on the stream, the error returned and the stream returned.              *)
(* ---------------------------------------------------------------------- *)
noAuthAuth == { [events |-> << >>, err |-> NoErr, conn |-> conn] }

usernameAuthAuth ==
    UNION { LET r == loginRequestReadFrom(bs)
                v == loginRequestValidate(r.msg)
                rd == ReadEv("loginRequest", bs, r)
            IN IF r.err # NoErr THEN
                    { [events |-> << rd >>, err |-> Wrap("sock read", r.err),
                       conn |-> conn] }
               ELSE IF v # NoErr THEN
                    { [events |-> << rd >>, err |-> v, conn |-> conn] }
               ELSE UNION {
                    { [events |-> << rd, CallEv("authenticator", verdict),
                                     WriteEv("loginReply", w) >>,
                       err |-> IF w.err # NoErr THEN Wrap("sock write", w.err)
                               ELSE verdict,
                       conn |-> conn] :
                        w \in WriteOutcomes(loginReplyBytes(
                                [status |-> IF verdict = NoErr THEN success
                                            ELSE denied])) } :
                    verdict \in { NoErr, << "bad credentials" >> } }
          : bs \in LoginInputs }

GssClientToken == << 9 >>
GssServerTokens == { << >>, << 8 >> }

GssFrames(mtype) ==
    { << subnVersion, mtype, 0, 1 >> \o GssClientToken,
      << subnVersion, 4, 0, 1 >> \o GssClientToken,
      << 5, mtype, 0, 1 >> \o GssClientToken }
GssInputs(mtype) ==
    GssFrames(mtype)
    \cup ProperPrefixes(<< subnVersion, mtype, 0, 1 >> \o GssClientToken)

\* gssapiAuth.authenticate with at most k passes of its loop
RECURSIVE gssAuthenticate(_)
gssAuthenticate(k) ==
    UNION { LET r == gssapiMessageReadFrom(bs)
                v == gssapiMessageValidate(r.msg, gssAuthentication)
                rd == ReadEv("gssapiMessage", bs, r)
            IN IF r.err # NoErr THEN
                    { [events |-> << rd >>, err |-> Wrap("sock read", r.err)] }
               ELSE IF v # NoErr THEN { [events |-> << rd >>, err |-> v] }
               ELSE
                 \* AcceptContext fails: the refuse marker is written, the
                 \* result of that write is ignored
                 { [events |-> << rd, CallEv("AcceptContext", << "gss" >>),
                                  Event("write", "refuse", p, p = << 1, 255 >>) >>,
                    err |-> << "accept client context", "gss" >>] :
                     p \in Prefixes(<< 1, 255 >>) }
                 \cup
                 UNION { UNION {
                    LET pre == << rd, CallEv("AcceptContext", NoErr),
                                  WriteEv("gssapiMessage", w) >>
                    IN IF w.err # NoErr THEN
                            { [events |-> pre, err |-> Wrap("sock write", w.err)] }
                       ELSE IF complete \/ Len(token) = 0 THEN
                            { [events |-> pre, err |-> NoErr] }
                       ELSE IF k > 1 THEN
                            { [events |-> pre \o o.events, err |-> o.err] :
                                o \in gssAuthenticate(k - 1) }
                       ELSE { }
                    : w \in WriteOutcomes(gssapiMessageBytes(
                            [messageType |-> r.msg.messageType, token |-> token])) }
                    : complete \in BOOLEAN, token \in GssServerTokens }
          : bs \in GssInputs(gssAuthentication) }

\* what GSSAPI.Decode may return for the client's protection token
GssDecoded == { << 1 >>, << 1, 1 >>, << >> }
\* GSSAPI.Encode of the one-byte agreed level
GssEncode(data) == << 200 >> \o data

gssApplyProtection ==
    UNION { LET r == gssapiMessageReadFrom(bs)
                v == gssapiMessageValidate(r.msg, gssProtection)
                rd == ReadEv("gssapiMessage", bs, r)
            IN IF r.err # NoErr THEN
                    { [events |-> << rd >>, err |-> Wrap("sock read", r.err)] }
               ELSE IF v # NoErr THEN { [events |-> << rd >>, err |-> v] }
               ELSE
                 { [events |-> << rd, CallEv("Decode", << "gss" >>) >>,
                    err |-> << "gss" >>] }
                 \cup
                 UNION {
                    IF Len(data) # 1 THEN
                        { [events |-> << rd, CallEv("Decode", NoErr) >>,
                           err |-> << "client send invalid protection level" >>] }
                    ELSE
                        { [events |-> << rd, CallEv("Decode", NoErr),
                                         CallEv("AcceptProtectionLevel", << "gss" >>) >>,
                           err |-> << "gss" >>],
                          [events |-> << rd, CallEv("Decode", NoErr),
                                         CallEv("AcceptProtectionLevel", NoErr),
                                         CallEv("Encode", << "gss" >>) >>,
                           err |-> << "gss" >>] }
                        \cup
                        UNION { {
                            [events |-> << rd, CallEv("Decode", NoErr),
                                           CallEv("AcceptProtectionLevel", NoErr),
                                           CallEv("Encode", NoErr),
                                           WriteEv("gssapiMessage", w) >>,
                             err |-> IF w.err # NoErr THEN Wrap("sock write", w.err)
                                     ELSE NoErr] :
                                w \in WriteOutcomes(gssapiMessageBytes(
                                    [messageType |-> r.msg.messageType,
                                     token |-> GssEncode(<< lvl >>)])) }
                            : lvl \in { 0, data[1] } }
                    : data \in GssDecoded }
          : bs \in GssInputs(gssProtection) }

gssapiAuthAuth ==
    { [events |-> << CallEv("gssapi", << "gss" >>) >>, err |-> << "gss" >>,
       conn |-> conn] }
    \cup
    UNION { IF a.err # NoErr THEN
                { [events |-> << CallEv("gssapi", NoErr) >> \o a.events,
                   err |-> a.err, conn |-> conn] }
            ELSE { [events |-> << CallEv("gssapi", NoErr) >> \o a.events \o b.events,
                    err |-> b.err,
                    conn |-> IF b.err = NoErr THEN "gss" ELSE conn] :
                        b \in gssApplyProtection }
          : a \in gssAuthenticate(MaxGssRounds) }

\* authenticate going on to the command stage whatever auth returned
authNext_ignoreError(e) == "getCommand"

\* the transition authenticate returns for the error of the handler's auth
authNext(e) == IF e # NoErr THEN "done" ELSE "getCommand"

\* authHandler.auth
handlerAuth(h) ==
    CASE h = "noAuth" -> noAuthAuth
      [] h = "usernameAuth" -> usernameAuthAuth
      [] h = "gssapiAuth" -> gssapiAuthAuth

\* authenticate keeping the stream it had
installed_keep(returned, current) == current

\* state.conn after a successful auth: the stream auth returned
installed(returned, current) == returned

authenticate ==
    /\ pc = "authenticate"
    /\ \E w \in WriteOutcomes(authReplyBytes([method |-> handlerMethod(method)])) :
         IF w.err # NoErr THEN
            /\ trace' = Append(trace, WriteEv("authReply", w))
            /\ Return("done", Wrap("sock write", w.err))
            /\ UNCHANGED conn
         ELSE \E a \in handlerAuth(method) :
            /\ trace' = trace \o << WriteEv("authReply", w), CallEv("auth", a.err) >>
                              \o a.events
            /\ IF a.err # NoErr THEN
                    /\ Return(authNext(a.err), Wrap("authenticate", a.err))
                    /\ UNCHANGED conn
               ELSE /\ conn' = installed(a.conn, conn)
                    /\ Return(authNext(a.err), NoErr)
    /\ UNCHANGED << aux, opts, methods, method, command, status, socks >>
(* ---------------------------------------------------------------------- *)
(* Command stage                                                           *)
(* ---------------------------------------------------------------------- *)
\* the ways commandReply.WriteTo can end on the client stream
ReplyOutcomes(r) ==
    LET w == commandReplyWriteTo(r)
    IN { [bytes |-> w.bytes, err |-> w.err] }
       \cup { [bytes |-> p, err |-> << "io" >>] : p \in ProperPrefixes(w.bytes) }

getCommand ==
    /\ pc = "getCommand"
    /\ \E bs \in CommandInputs :
         LET r == commandRequestReadFrom(bs)
             v == commandRequestValidate(r.msg)
         IN /\ trace' = Append(trace, ReadEv("commandRequest", bs, r))
            /\ IF r.err # NoErr THEN
                    /\ Return("done", Wrap("sock read", r.err))
                    /\ UNCHANGED << command, status >>
               ELSE IF v # NoErr THEN
                    /\ Return("done", v)
                    /\ UNCHANGED << command, status >>
               ELSE /\ command' = r.msg
                    /\ CASE r.msg.commandType = connect ->
                                Return("runConnect", NoErr) /\ UNCHANGED status
                         [] r.msg.commandType = bind ->
                                Return("runBind", NoErr) /\ UNCHANGED status
                         [] r.msg.commandType = udpAssoc ->
                                Return("runUDPAssoc", NoErr) /\ UNCHANGED status
                         [] OTHER ->
                                /\ status' = notSupported
                                /\ Return("failCommand", << "unsupported command" >>)
    /\ UNCHANGED << aux, opts, conn, methods, method, socks >>

\* runBind going on to defaultBind whether or not a backend is configured
runBind_always ==
    /\ pc = "runBind"
    /\ UNCHANGED status /\ Return("defaultBind", NoErr)
    /\ UNCHANGED << aux, opts, conn, methods, method, command, socks, trace >>

runBind ==
    /\ pc = "runBind"
    /\ IF ~opts.listen
       THEN status' = notAllowed /\ Return("failCommand", NoErr)
       ELSE UNCHANGED status /\ Return("defaultBind", NoErr)
    /\ UNCHANGED << aux, opts, conn, methods, method, command, socks, trace >>

\* runUDPAssoc answering with notAllowed
runUDPAssoc_notAllowed ==
    /\ pc = "runUDPAssoc"
    /\ status' = notAllowed
    /\ Return("failCommand", NoErr)
    /\ UNCHANGED << aux, opts, conn, methods, method, command, socks, trace >>

runUDPAssoc ==
    /\ pc = "runUDPAssoc"
    /\ status' = notSupported
    /\ Return("failCommand", NoErr)
    /\ UNCHANGED << aux, opts, conn, methods, method, command, socks, trace >>

\* a runConnect that leaves the reply status as it found it
connectStatus_unset(e) == succeeded

\* a status table without ErrNotAllowed whose default is hostUnreachable
connectStatus_hostDefault(e) ==
    IF errorsIs(e, "ErrHostUnreachable") THEN hostUnreachable
    ELSE IF errorsIs(e, "ErrConnectionRefused") THEN connectionRefused
    ELSE IF errorsIs(e, "ErrNetworkUnreachable") THEN networkUnreachable
    ELSE IF errorsIs(e, "ErrTTLExpired") THEN ttlExpired
    ELSE hostUnreachable

\* the reply status runConnect picks for an error of the CONNECT callback
connectStatus(e) ==
    IF errorsIs(e, "ErrNotAllowed") THEN notAllowed
    ELSE IF errorsIs(e, "ErrHostUnreachable") THEN hostUnreachable
    ELSE IF errorsIs(e, "ErrConnectionRefused") THEN connectionRefused
    ELSE IF errorsIs(e, "ErrNetworkUnreachable") THEN networkUnreachable
    ELSE IF errorsIs(e, "ErrTTLExpired") THEN ttlExpired
    ELSE sockFailure

runConnect ==
    /\ pc = "runConnect"
    /\ \/ \E e \in ConnectErrors :
            /\ trace' = Append(trace, CallEv("connect", e))
            /\ status' = connectStatus(e)
            /\ Return("failCommand", e)
            /\ UNCHANGED socks
       \/ \E a \in NetAddrs :
            LET bnd == parseAddress(a)
                reply == [rep |-> succeeded, rsv |-> 0,
                          addressType |-> bnd.addressType, addr |-> bnd.ip,
                          port |-> bnd.port % 65536]
                called == Append(trace, CallAddrEv("connect", a))
            IN /\ socks' = [socks EXCEPT !.target = "open"]
               /\ UNCHANGED status
               /\ IF bnd.err # NoErr THEN
                       /\ trace' = called
                       /\ Return("done", Wrap("local address", bnd.err))
                  ELSE \E w \in ReplyOutcomes(reply) :
                       IF w.err # NoErr THEN
                            /\ trace' = Append(called, WriteEv("commandReply", w))
                            /\ Return("done", Wrap("sock write", w.err))
                       ELSE /\ trace' = called \o << WriteEv("commandReply", w),
                                                     CallEv("link", NoErr) >>
                            /\ Return("link", NoErr)
    /\ UNCHANGED << aux, opts, conn, methods, method, command >>

\* a failure reply that carries an all-zero IPv4 address instead of the
\* client's address
failReply_zeroAddr(st, cmd) ==
    [rep |-> st, rsv |-> 0, addressType |-> ipv4, addr |-> << 0, 0, 0, 0 >>,
     port |-> 0]

\* a failure reply that reports Succeeded whatever the status is
failReply_succeeded(st, cmd) ==
    [rep |-> succeeded, rsv |-> 0, addressType |-> cmd.addressType,
     addr |-> cmd.addr, port |-> cmd.port]

\* the reply failCommand builds from the state
failReply(st, cmd) ==
    [rep |-> st, rsv |-> 0, addressType |-> cmd.addressType, addr |-> cmd.addr,
     port |-> cmd.port]

\* failCommand handing the connection back to the command stage
failCommandNext_again == "getCommand"

\* the transition failCommand returns once the reply is written
failCommandNext == "done"

failCommand ==
    /\ pc = "failCommand"
    /\ \E w \in ReplyOutcomes(failReply(status, command)) :
            /\ trace' = Append(trace, WriteEv("commandReply", w))
            /\ IF w.err # NoErr THEN Return("done", Wrap("sock write", w.err))
               ELSE Return(failCommandNext, NoErr)
    /\ UNCHANGED << aux, opts, conn, methods, method, command, status, socks >>

\* a second reply that repeats the first one
bindSecondReply_same(first, peer) == first

\* the second reply of BIND: the first one with the address and the port
\* of the accepted peer
bindSecondReply(first, peer) ==
    [first EXCEPT !.addressType = peer.addressType, !.addr = peer.ip,
                  !.port = peer.port % 65536]

defaultBind ==
    /\ pc = "defaultBind"
    /\ \/ /\ trace' = Append(trace, CallEv("listen", << "listen failed" >>))
          /\ status' = sockFailure
          /\ Return("failCommand", << "listen", "listen failed" >>)
          /\ UNCHANGED socks
       \/ \E la \in NetAddrs :
            LET bnd == parseAddress(la)
                first == [rep |-> succeeded, rsv |-> 0,
                          addressType |-> bnd.addressType, addr |-> bnd.ip,
                          port |-> bnd.port % 65536]
                t1 == Append(trace, CallAddrEv("listen", la))
                closeLs == CallEv("ls.Close", NoErr)
            IN IF bnd.err # NoErr THEN
                    /\ trace' = Append(t1, closeLs)
                    /\ socks' = [socks EXCEPT !.listener = "closed"]
                    /\ status' = sockFailure
                    /\ Return("failCommand", Wrap("local bnd address", bnd.err))
               ELSE \E w1 \in ReplyOutcomes(first) :
                    LET t2 == Append(t1, WriteEv("commandReply", w1))
                    IN IF w1.err # NoErr THEN
                            /\ trace' = Append(t2, closeLs)
                            /\ socks' = [socks EXCEPT !.listener = "closed"]
                            /\ UNCHANGED status
                            /\ Return("done", Wrap("sock write", w1.err))
                       ELSE
                         \/ /\ trace' = t2 \o << CallEv("Accept", << "accept failed" >>),
                                                 closeLs >>
                            /\ socks' = [socks EXCEPT !.listener = "closed"]
                            /\ status' = sockFailure
                            /\ Return("failCommand",
                                      << "listen accept", "accept failed" >>)
                         \/ \E ra \in NetAddrs :
                              LET peer == parseAddress(ra)
                                  second == bindSecondReply(first, peer)
                                  t3 == Append(t2, CallAddrEv("Accept", ra))
                              IN IF peer.err # NoErr THEN
                                    /\ trace' = Append(t3, closeLs)
                                    /\ socks' = [socks EXCEPT !.listener = "closed",
                                                              !.target = "open"]
                                    /\ status' = sockFailure
                                    /\ Return("failCommand",
                                              Wrap("remote bnd address", peer.err))
                                 ELSE \E w2 \in ReplyOutcomes(second) :
                                    IF w2.err # NoErr THEN
                                        /\ trace' = t3 \o << WriteEv("commandReply", w2),
                                                             closeLs >>
                                        /\ socks' = [socks EXCEPT
                                                        !.listener = "closed",
                                                        !.target = "open"]
                                        /\ UNCHANGED status
                                        /\ Return("done", Wrap("sock write", w2.err))
                                    ELSE
                                        /\ trace' = t3 \o << WriteEv("commandReply", w2),
                                                             CallEv("link", NoErr) >>
                                        /\ socks' = [socks EXCEPT
                                                        !.listener = "open",
                                                        !.target = "open"]
                                        /\ UNCHANGED status
                                        /\ Return("link", NoErr)
    /\ UNCHANGED << aux, opts, conn, methods, method, command >>

\* link returns after both copy directions ended: it has closed the target
\* and the client stream; a listener still open is closed by the deferred
\* Close of defaultBind
link ==
    /\ pc = "link"
    /\ socks' = [client |-> "closed", target |-> "closed",
                 listener |-> IF socks.listener = "open" THEN "closed"
                              ELSE socks.listener]
    /\ trace' = IF socks.listener = "open"
                THEN Append(trace, CallEv("ls.Close", NoErr)) ELSE trace
    /\ Return("done", NoErr)
    /\ UNCHANGED << aux, opts, conn, methods, method, command, status >>

Next ==
    \/ initial
    \/ failAuth
    \/ authenticate
    \/ getCommand
    \/ runBind
    \/ runUDPAssoc
    \/ runConnect
    \/ failCommand
    \/ defaultBind
    \/ link

Spec == Init /\ [][Next]_vars

(* ---------------------------------------------------------------------- *)
(* New on its own: every configuration, one call                           *)
(* ---------------------------------------------------------------------- *)
connVars == << opts, pc, conn, methods, method, command, status, err, reported,
              socks, trace >>

\* no connection is being served
NoConnection ==
    /\ opts = [AllowNoAuth |-> TRUE, Authenticate |-> FALSE, GSSAPI |-> FALSE,
               listen |-> FALSE]
    /\ pc = "done"
    /\ conn = "raw"
    /\ methods = << >>
    /\ method = "none"
    /\ command = ZeroCommand
    /\ status = succeeded
    /\ err = NoErr
    /\ reported = << >>
    /\ socks = [client |-> "open", target |-> "none", listener |-> "none"]
    /\ trace = << >>

InitNew ==
    /\ NoConnection
    /\ options \in AllOptions
    /\ server = NotCalled
    /\ relay = NoRelay
    /\ gss = NoGss
    /\ codec = NoCodec
    /\ tconn = NoConn
    /\ gauth = NoGauth
    /\ lru = NoLru

CallNew ==
    /\ ~server.called
    /\ server' = New(options)
    /\ UNCHANGED << connVars, options, relay, gss, codec, tconn, gauth, lru >>

NextNew == CallNew

SpecNew == InitNew /\ [][NextNew]_vars

(* ---------------------------------------------------------------------- *)
(* link on its own: two io.Copy loops running side by side, each followed  *)
(* by its Close.  A Read or Write on a stream this side has closed fails;  *)
(* a Read with nothing to deliver waits, ends with EOF or fails.           *)
(* ---------------------------------------------------------------------- *)
InitLink ==
    /\ NoConnection
    /\ options = ZeroOptions
    /\ server = NotCalled
    /\ gss = NoGss
    /\ codec = NoCodec
    /\ tconn = NoConn
    /\ gauth = NoGauth
    /\ lru = NoLru
    /\ \E kc, kt \in 0..MaxRelay :
         relay = StartRelay(RelayBytes(0, kc), RelayBytes(100, kt))

\* the copy of direction d ends
copyEnds(r, d, why) ==
    [r EXCEPT !.pc[d] = "close", !.buf[d] = << >>,
              !.ended = Append(r.ended, << d, why >>)]

\* io.Copy: src.Read
copyRead(d) ==
    /\ relay.pc[d] = "read"
    /\ IF relay.closes[copySrc(d)] > 0 THEN
            relay' = copyEnds(relay, d, "closed")
       ELSE \/ /\ relay.pending[d] # << >>
               /\ \E n \in 1..Len(relay.pending[d]) :
                    relay' = [relay EXCEPT !.pc[d] = "write",
                                           !.buf[d] = Take(relay.pending[d], n),
                                           !.pending[d] = Drop(relay.pending[d], n)]
            \/ /\ relay.pending[d] = << >>
               /\ relay' = copyEnds(relay, d, "EOF")
            \/ relay' = copyEnds(relay, d, "read error")
    /\ UNCHANGED << connVars, options, server, gss, codec, tconn, gauth, lru >>

\* io.Copy: dst.Write of what was read
copyWrite(d) ==
    /\ relay.pc[d] = "write"
    /\ IF relay.closes[copyDst(d)] > 0 THEN
            relay' = copyEnds(relay, d, "write error")
       ELSE \/ relay' = [relay EXCEPT
                           !.pc[d] = "read", !.buf[d] = << >>,
                           !.out[copyDst(d)] = relay.out[copyDst(d)] \o relay.buf[d]]
            \/ \E p \in ProperPrefixes(relay.buf[d]) :
                    relay' = copyEnds(
                        [relay EXCEPT !.out[copyDst(d)] = relay.out[copyDst(d)] \o p],
                        d, "write error")
    /\ UNCHANGED << connVars, options, server, gss, codec, tconn, gauth, lru >>

\* the Close after the copy; the caller ("down") then returns from link
copyClose(d) ==
    /\ relay.pc[d] = "close"
    /\ relay' = [relay EXCEPT
                   !.pc[d] = "done",
                   !.closes = [s \in DOMAIN relay.closes |->
                                 IF s \in closedBy(d) THEN relay.closes[s] + 1
                                 ELSE relay.closes[s]],
                   !.returned = (d = "down") \/ relay.returned]
    /\ UNCHANGED << connVars, options, server, gss, codec, tconn, gauth, lru >>

NextLink ==
    \E d \in { "up", "down" } : copyRead(d) \/ copyWrite(d) \/ copyClose(d)

SpecLink == InitLink /\ [][NextLink]_vars

\* a Read pending on a stream that this side has closed
copyReadClosed(d) == relay.closes[copySrc(d)] > 0 /\ copyRead(d)

\* link under a scheduler that runs both goroutines: a Write ends, a Close
\* ends, and a Read on a closed stream returns; a Read on an open stream
\* may wait for ever
SpecLinkFair ==
    /\ SpecLink
    /\ \A d \in { "up", "down" } :
         /\ WF_vars(copyReadClosed(d))
         /\ WF_vars(copyWrite(d))
         /\ WF_vars(copyClose(d))
(* ---------------------------------------------------------------------- *)
(* gssConn: one side writes a payload through gssConn.Write, the peer      *)
(* reads the raw bytes through gssConn.Read                                *)
(* ---------------------------------------------------------------------- *)
\* largest small payload
MaxPayload == 4

\* a payload of n bytes, each byte telling its position
Payload(n) == [i \in 1..n |-> i % 251]

\* payloads handed to Write: small ones, and ones around the chunk limit
Payloads ==
    { Payload(n) : n \in (0..MaxPayload) \cup { maxChunkSize, maxChunkSize + 1 } }

\* len(p) of the buffers handed to Read
ReadSizes == { 1, 2, maxChunkSize }

\* GSSAPI.Decode, the inverse of GssEncode
GssDecode(token) ==
    IF Len(token) >= 1 /\ token[1] = 200
    THEN [data |-> Tail(token), err |-> NoErr]
    ELSE [data |-> << >>, err |-> << "decode" >>]

\* what raw.Write took of a frame: all of it, or a part with an error
RawWrites(frame) ==
    { [nn |-> Len(frame), err |-> NoErr] } \cup
    { [nn |-> k, err |-> << "write error" >>] : k \in { 0, 4 } }

\* func (g gssConn): the method works on a copy of the stored value; what
\* it did to the copy's fields is gone when it returns
receiver(stored, local) == stored

\* gssConn.Read(p) with len(p) = k on the receiver copy g
gssConnRead(g, raw, k) ==
    IF Len(g.buffer) > 0
    THEN [data |-> Take(g.buffer, k), err |-> NoErr, raw |-> raw, took |-> << >>,
          g |-> [g EXCEPT !.buffer = Drop(g.buffer, k)]]
    ELSE LET r == gssapiMessageReadFrom(raw)
             rest == Drop(raw, r.n)
             fail(e) == [data |-> << >>, err |-> e, raw |-> rest,
                         took |-> << >>, g |-> g]
         IN IF r.err # NoErr THEN fail(r.err)
            ELSE IF gssapiMessageValidate(r.msg, gssEncapsulation) # NoErr
                 THEN fail(gssapiMessageValidate(r.msg, gssEncapsulation))
            ELSE LET d == GssDecode(r.msg.token)
                 IN IF d.err # NoErr THEN fail(d.err)
                    ELSE [data |-> Take(d.data, k), err |-> NoErr, raw |-> rest,
                          took |-> d.data,
                          g |-> [g EXCEPT !.buffer = Drop(d.data, k)]]

InitGss ==
    /\ NoConnection
    /\ options = ZeroOptions
    /\ server = NotCalled
    /\ relay = NoRelay
    /\ codec = NoCodec
    /\ tconn = NoConn
    /\ gauth = NoGauth
    /\ lru = NoLru
    /\ \E p \in Payloads :
         gss = [NoGss EXCEPT !.active = TRUE, !.p0 = p, !.wp = p,
                             !.wpc = "loop", !.rpc = "open"]

\* one turn of the loop of gssConn.Write
gssWriteChunk ==
    /\ gss.active /\ gss.wpc = "loop" /\ Len(gss.wp) > 0
    /\ LET bound == IF Len(gss.wp) < maxChunkSize THEN Len(gss.wp) ELSE maxChunkSize
           chunk == Take(gss.wp, bound)
           msg == [version |-> subnVersion, messageType |-> gssEncapsulation,
                   token |-> GssEncode(chunk)]
           buf == gssapiMessageWriteTo(msg)
       IN IF buf.err # NoErr
          THEN gss' = [gss EXCEPT !.wp = Drop(gss.wp, bound), !.wpc = "returned",
                                  !.werr = buf.err]
          ELSE \E w \in RawWrites(buf.bytes) :
                 gss' = [gss EXCEPT
                           !.wp = Drop(gss.wp, bound),
                           !.wn = gss.wn + w.nn,
                           !.pipe = gss.pipe \o Take(buf.bytes, w.nn),
                           !.wire = gss.wire \o Take(buf.bytes, w.nn),
                           !.werr = w.err,
                           !.wpc = IF w.err # NoErr THEN "returned" ELSE "loop"]
    /\ UNCHANGED << connVars, options, server, relay, codec, tconn, gauth, lru >>

\* the loop of gssConn.Write ends: return n, nil
gssWriteReturn ==
    /\ gss.active /\ gss.wpc = "loop" /\ Len(gss.wp) = 0
    /\ gss' = [gss EXCEPT !.wpc = "returned"]
    /\ UNCHANGED << connVars, options, server, relay, codec, tconn, gauth, lru >>

\* one call of gssConn.Read on the peer; the raw Read waits while nothing
\* has arrived and the writer is still at work
gssRead(k) ==
    /\ gss.active /\ gss.rpc = "open"
    /\ Len(gss.buffer) > 0 \/ Len(gss.pipe) > 0 \/ gss.wpc = "returned"
    /\ LET r == gssConnRead([buffer |-> gss.buffer], gss.pipe, k)
       IN gss' = [gss EXCEPT
                    !.buffer = receiver(gss.buffer, r.g.buffer),
                    !.pipe = r.raw,
                    !.delivered = gss.delivered \o r.data,
                    !.consumed = gss.consumed \o r.took,
                    !.frames = IF Len(gss.buffer) = 0 /\ r.err = NoErr
                               THEN gss.frames + 1 ELSE gss.frames,
                    !.rerr = r.err,
                    !.rpc = IF r.err # NoErr THEN "ended" ELSE "open"]
    /\ UNCHANGED << connVars, options, server, relay, codec, tconn, gauth, lru >>

NextGss ==
    \/ gssWriteChunk
    \/ gssWriteReturn
    \/ \E k \in ReadSizes : gssRead(k)

SpecGss == InitGss /\ [][NextGss]_vars

(* ---------------------------------------------------------------------- *)
(* The codec on its own: a frame or a byte sequence is chosen, and one     *)
(* reader or writer of messages.go is applied to it                        *)
(* ---------------------------------------------------------------------- *)
\* address type bytes tried: 0..MaxAType
MaxAType == 5

\* what follows the four header bytes of a request
RequestTails ==
    { << 10, 0, 0, 1 >> \o U16(80),
      << 3, 97, 98, 99 >> \o U16(80),
      Payload(IPv6len) \o U16(80),
      << 7 >> }

CodecRequests ==
    { << protoVersion, connect, 0, t >> \o tail :
        t \in 0..MaxAType, tail \in RequestTails }
    \cup { Take(<< protoVersion, connect, 0, ipv4 >>, k) : k \in 0..3 }

AddrLens == { 0, 1, IPv4len, IPv6len, 255, 256, 257 }

CodecReplies ==
    [rep : { succeeded, hostUnreachable }, rsv : { 0 },
     addressType : 0..MaxAType,
     addr : { Payload(k) : k \in AddrLens },
     port : { 0, 8080 }]

\* token lengths: none, low byte only, high byte only, the largest, too large
TokenLens == { 0, 1, 256, gssMaxTokenSize, gssMaxTokenSize + 1 }

CodecMessages ==
    [version : { subnVersion },
     messageType : { gssAuthentication, gssProtection, gssEncapsulation },
     token : { Payload(k) : k \in TokenLens }]

InitCodec ==
    /\ NoConnection
    /\ options = ZeroOptions
    /\ server = NotCalled
    /\ relay = NoRelay
    /\ gss = NoGss
    /\ tconn = NoConn
    /\ gauth = NoGauth
    /\ lru = NoLru
    /\ \/ \E bs \in CodecRequests :
            codec = [op |-> "input", kind |-> "commandRequest", in |-> bs]
       \/ \E r \in CodecReplies :
            codec = [op |-> "input", kind |-> "commandReply", in |-> r]
       \/ \E m \in CodecMessages :
            codec = [op |-> "input", kind |-> "gssapiMessage", in |-> m]

codecReadRequest ==
    /\ codec.op = "input" /\ codec.kind = "commandRequest"
    /\ codec' = [op |-> "commandRequest.ReadFrom", in |-> codec.in,
                 out |-> commandRequestReadFrom(codec.in)]
    /\ UNCHANGED << connVars, options, server, relay, gss, tconn, gauth, lru >>

codecWriteReply ==
    /\ codec.op = "input" /\ codec.kind = "commandReply"
    /\ codec' = [op |-> "commandReply.WriteTo", in |-> codec.in,
                 out |-> commandReplyWriteTo(codec.in)]
    /\ UNCHANGED << connVars, options, server, relay, gss, tconn, gauth, lru >>

codecWriteMessage ==
    /\ codec.op = "input" /\ codec.kind = "gssapiMessage"
    /\ codec' = [op |-> "gssapiMessage.WriteTo", in |-> codec.in,
                 out |-> gssapiMessageWriteTo(codec.in)]
    /\ UNCHANGED << connVars, options, server, relay, gss, tconn, gauth, lru >>

\* the bytes a writer has emitted without error are read back
codecReadMessage ==
    /\ codec.op = "gssapiMessage.WriteTo" /\ codec.out.err = NoErr
    /\ codec' = [op |-> "gssapiMessage.ReadFrom", in |-> codec.in,
                 wrote |-> codec.out,
                 out |-> gssapiMessageReadFrom(codec.out.bytes)]
    /\ UNCHANGED << connVars, options, server, relay, gss, tconn, gauth, lru >>

NextCodec ==
    \/ codecReadRequest
    \/ codecWriteReply
    \/ codecWriteMessage
    \/ codecReadMessage

SpecCodec == InitCodec /\ [][NextCodec]_vars

(* ---------------------------------------------------------------------- *)
(* tcpConnWithTimeout: the client socket as handle wraps it, used by two   *)
(* callers at once (the two copy directions of link); time in minutes      *)
(* ---------------------------------------------------------------------- *)
\* the clock stops here
MaxClock == 3

Callers == { "up", "down" }

ConnOps == { "Read", "Write", "ReadFrom", "WriteTo" }

\* the servers New builds, told apart by their MaxConnIdle alone
ConnOptions ==
    { o \in AllOptions :
        /\ o.AllowNoAuth /\ ~o.Authenticate /\ ~o.GSSAPI
        /\ ~o.Connect /\ ~o.listen }

\* a deadline of now, the idle limit left out
opDeadline_noIdle(now, timeout) == now

\* time.Now().Add(t.timeout)
opDeadline(now, timeout) == now + timeout

\* what the delegated call can return at time `now` under `deadline`
DelegateResults(now, deadline) ==
    { "ok", "error" } \cup
    (IF deadline # << >> /\ now >= deadline[1] THEN { "i/o timeout" } ELSE { })

InitConn ==
    /\ NoConnection
    /\ relay = NoRelay
    /\ gss = NoGss
    /\ codec = NoCodec
    /\ gauth = NoGauth
    /\ lru = NoLru
    /\ \E o \in ConnOptions :
         /\ options = o
         /\ server = New(o)
         /\ tconn = [active |-> TRUE, timeout |-> New(o).maxConnIdle,
                      now |-> 0, deadline |-> << >>, lastStart |-> << >>,
                      pc |-> [c \in Callers |-> "idle"],
                      started |-> [c \in Callers |-> 0],
                      res |-> [c \in Callers |-> "none"]]

\* the first statement of Read, Write, ReadFrom or WriteTo: SetDeadline
tconnSetDeadline(c, op) ==
    /\ tconn.active /\ tconn.pc[c] = "idle"
    /\ tconn' = [tconn EXCEPT
                   !.deadline = << opDeadline(tconn.now, tconn.timeout) >>,
                   !.lastStart = << tconn.now >>,
                   !.started[c] = tconn.now,
                   !.pc[c] = op,
                   !.res[c] = "none"]
    /\ UNCHANGED << connVars, options, server, relay, gss, codec, gauth, lru >>

\* the second statement: the call on the embedded *net.TCPConn returns
tconnDelegate(c) ==
    /\ tconn.active /\ tconn.pc[c] \in ConnOps
    /\ \E r \in DelegateResults(tconn.now, tconn.deadline) :
         tconn' = [tconn EXCEPT !.pc[c] = "idle", !.res[c] = r]
    /\ UNCHANGED << connVars, options, server, relay, gss, codec, gauth, lru >>

\* time passes
tconnTick ==
    /\ tconn.active /\ tconn.now < MaxClock
    /\ tconn' = [tconn EXCEPT !.now = tconn.now + 1]
    /\ UNCHANGED << connVars, options, server, relay, gss, codec, gauth, lru >>

NextConn ==
    \/ \E c \in Callers, op \in ConnOps : tconnSetDeadline(c, op)
    \/ \E c \in Callers : tconnDelegate(c)
    \/ tconnTick

SpecConn == InitConn /\ [][NextConn]_vars

(* ---------------------------------------------------------------------- *)
(* gssapiAuth.auth statement by statement: the context loop (authenticate) *)
(* and the protection negotiation (applyProtection) on the raw stream      *)
(* ---------------------------------------------------------------------- *)
\* most passes of the context loop
MaxAuthRounds == 2

\* what GSSAPI.AcceptContext may return: an error, or complete and a token
AcceptResults ==
    { [complete |-> FALSE, token |-> << >>, err |-> << "gss" >>] }
    \cup [complete : BOOLEAN, token : GssServerTokens, err : { NoErr }]

\* a loop that goes on until the context is complete, whatever the token
loopEnds_completeOnly(complete, token) == complete

\* if complete || len(msg.token) == 0 { break }
loopEnds(complete, token) == complete \/ Len(token) = 0

\* a check that lets through every payload that has a first byte
badLevel_empty(data) == Len(data) = 0

\* if len(data) != 1
badLevel(data) == Len(data) # 1

\* one entry of the log of one run of auth
GaEv(kind, name, bytes, ok) ==
    [phase |-> gauth.pc, iter |-> gauth.iter, ev |-> kind, name |-> name,
     bytes |-> bytes, ok |-> ok, complete |-> FALSE]

\* return conn, err
gaReturn(ev, e) ==
    gauth' = [gauth EXCEPT !.pc = "returned", !.err = e,
                           !.log = gauth.log \o ev]

InitGauth ==
    /\ NoConnection
    /\ options = ZeroOptions
    /\ server = NotCalled
    /\ relay = NoRelay
    /\ gss = NoGss
    /\ codec = NoCodec
    /\ tconn = NoConn
    /\ lru = NoLru
    /\ gauth = [NoGauth EXCEPT !.pc = "gssapi"]

\* gssapi, err := a.gssapi()
gaFactory ==
    /\ gauth.pc = "gssapi"
    /\ \/ gaReturn(<< GaEv("call", "gssapi", << >>, FALSE) >>, << "gss" >>)
       \/ gauth' = [gauth EXCEPT
                      !.pc = "A.read", !.iter = 1,
                      !.log = Append(gauth.log, GaEv("call", "gssapi", << >>, TRUE))]
    /\ UNCHANGED << connVars, options, server, relay, gss, codec, tconn, lru >>

\* msg.ReadFrom(conn) and msg.validate of either phase
gaRead(phase, mtype, next) ==
    /\ gauth.pc = phase
    /\ \E bs \in GssInputs(mtype) \cup GssFrames(gssEncapsulation) :
         LET r == gssapiMessageReadFrom(bs)
             v == gssapiMessageValidate(r.msg, mtype)
             rd == GaEv("read", "gssapiMessage", Take(bs, r.n),
                        r.err = NoErr /\ v = NoErr)
         IN IF r.err # NoErr THEN gaReturn(<< rd >>, Wrap("sock read", r.err))
            ELSE IF v # NoErr THEN gaReturn(<< rd >>, v)
            ELSE gauth' = [gauth EXCEPT !.pc = next, !.msg = r.msg,
                                        !.log = Append(gauth.log, rd)]
    /\ UNCHANGED << connVars, options, server, relay, gss, codec, tconn, lru >>

\* complete, token, err := gssapi.AcceptContext(msg.token); on an error the
\* refuse marker is written, whatever becomes of that write
gaAccept ==
    /\ gauth.pc = "A.accept"
    /\ \E a \in AcceptResults :
         /\ gauth.iter >= MaxAuthRounds =>
               (a.err # NoErr \/ a.complete \/ a.token = << >>)
         /\ LET call == [GaEv("call", "AcceptContext", a.token, a.err = NoErr)
                            EXCEPT !.complete = a.complete]
            IN IF a.err # NoErr
               THEN \E p \in Prefixes(<< 1, 255 >>) :
                      gaReturn(<< call, GaEv("write", "refuse", p, p = << 1, 255 >>) >>,
                               Wrap("accept client context", a.err))
               ELSE gauth' = [gauth EXCEPT
                                !.pc = "A.write", !.accepted = << a >>,
                                !.msg.token = a.token,
                                !.log = Append(gauth.log, call)]
    /\ UNCHANGED << connVars, options, server, relay, gss, codec, tconn, lru >>

\* msg.WriteTo(conn), then the test that ends the loop
gaReply ==
    /\ gauth.pc = "A.write"
    /\ \E w \in WriteOutcomes(gssapiMessageBytes(gauth.msg)) :
         LET wr == GaEv("write", "gssapiMessage", w.bytes, w.err = NoErr)
             a == gauth.accepted[1]
         IN IF w.err # NoErr THEN gaReturn(<< wr >>, Wrap("sock write", w.err))
            ELSE IF loopEnds(a.complete, gauth.msg.token)
                 THEN gauth' = [gauth EXCEPT !.pc = "B.read",
                                             !.log = Append(gauth.log, wr)]
                 ELSE gauth' = [gauth EXCEPT !.pc = "A.read",
                                             !.iter = gauth.iter + 1,
                                             !.log = Append(gauth.log, wr)]
    /\ UNCHANGED << connVars, options, server, relay, gss, codec, tconn, lru >>

\* data, err := gssapi.Decode(msg.token) and the test of len(data)
gbDecode ==
    /\ gauth.pc = "B.decode"
    /\ \/ gaReturn(<< GaEv("call", "Decode", << >>, FALSE) >>, << "gss" >>)
       \/ \E data \in GssDecoded :
            LET call == GaEv("call", "Decode", data, TRUE)
            IN IF badLevel(data)
               THEN gaReturn(<< call >>, << "client send invalid protection level" >>)
               ELSE gauth' = [gauth EXCEPT !.pc = "B.level", !.data = data,
                                           !.log = Append(gauth.log, call)]
    /\ UNCHANGED << connVars, options, server, relay, gss, codec, tconn, lru >>

\* lvl, err := gssapi.AcceptProtectionLevel(data[0])
gbLevel ==
    /\ gauth.pc = "B.level"
    /\ \/ gaReturn(<< GaEv("call", "AcceptProtectionLevel", gauth.data, FALSE) >>,
                   << "gss" >>)
       \/ \E lvl \in { 0, gauth.data[1] } :
            gauth' = [gauth EXCEPT
                        !.pc = "B.encode", !.lvl = lvl,
                        !.log = Append(gauth.log,
                            GaEv("call", "AcceptProtectionLevel", << lvl >>, TRUE))]
    /\ UNCHANGED << connVars, options, server, relay, gss, codec, tconn, lru >>

\* token, err := gssapi.Encode([]byte{lvl})
gbEncode ==
    /\ gauth.pc = "B.encode"
    /\ \/ gaReturn(<< GaEv("call", "Encode", << gauth.lvl >>, FALSE) >>, << "gss" >>)
       \/ gauth' = [gauth EXCEPT
                      !.pc = "B.write",
                      !.msg.token = GssEncode(<< gauth.lvl >>),
                      !.log = Append(gauth.log,
                            GaEv("call", "Encode", << gauth.lvl >>, TRUE))]
    /\ UNCHANGED << connVars, options, server, relay, gss, codec, tconn, lru >>

\* msg.WriteTo(conn) of applyProtection, and the return of auth
gbReply ==
    /\ gauth.pc = "B.write"
    /\ \E w \in WriteOutcomes(gssapiMessageBytes(gauth.msg)) :
         LET wr == GaEv("write", "gssapiMessage", w.bytes, w.err = NoErr)
         IN IF w.err # NoErr THEN gaReturn(<< wr >>, Wrap("sock write", w.err))
            ELSE gauth' = [gauth EXCEPT !.pc = "returned", !.err = NoErr,
                                        !.conn = "gss",
                                        !.log = Append(gauth.log, wr)]
    /\ UNCHANGED << connVars, options, server, relay, gss, codec, tconn, lru >>

NextGauth ==
    \/ gaFactory
    \/ gaRead("A.read", gssAuthentication, "A.accept")
    \/ gaAccept
    \/ gaReply
    \/ gaRead("B.read", gssProtection, "B.decode")
    \/ gbDecode
    \/ gbLevel
    \/ gbEncode
    \/ gbReply

SpecGauth == InitGauth /\ [][NextGauth]_vars

(* ---------------------------------------------------------------------- *)
(* lru (lru.go): a map from keys to nodes and a doubly linked list of the  *)
(* nodes, rear the least and front the most recently used.  A node is a    *)
(* number, 0 is nil, and nodes holds the fields of every node allocated.   *)
(* ---------------------------------------------------------------------- *)
\* most calls made on one cache
MaxLruOps == 4
\* keys are 1..MaxKeys
MaxKeys == 3
\* capacities are 1..MaxSize
MaxSize == 2

Keys == 1..MaxKeys
Values == { 1, 2 }

\* newCache(size)
newCache(size) ==
    [list |-> [k \in Keys |-> 0], nodes |-> << >>, front |-> 0, rear |-> 0,
     available |-> size]

\* len(c.list)
lruLen(c) == Cardinality({ k \in Keys : c.list[k] # 0 })

\* &node{key: k, value: v}
lruAlloc(c, k, v) == Append(c.nodes, [key |-> k, value |-> v, prev |-> 0, next |-> 0])

lruNewList(c, k, v) ==
    LET item == Len(c.nodes) + 1
    IN [c EXCEPT !.nodes = lruAlloc(c, k, v), !.front = item, !.rear = item,
                 !.list[k] = item, !.available = c.available - 1]

\* add: a new key into a cache that is not empty
lruAddNew(c, k, v) ==
    LET item == Len(c.nodes) + 1
        n1 == lruAlloc(c, k, v)
        n2 == [n1 EXCEPT ![c.front].next = item, ![item].prev = c.front]
        c1 == [c EXCEPT !.nodes = n2, !.list[k] = item, !.front = item]
    IN IF c.available > 0 THEN [c1 EXCEPT !.available = c.available - 1]
       ELSE [c1 EXCEPT !.list[n2[c.rear].key] = 0, !.rear = n2[c.rear].next]

\* a cache whose nodes stay where they are
lruToFront_stay(c, l) == c

\* toFront: node l becomes the front
lruToFront(c, l) ==
    IF c.nodes[l].next = 0 THEN c
    ELSE LET rear == IF l = c.rear THEN c.nodes[l].next ELSE c.rear
             prev == c.nodes[l].prev
             next == c.nodes[l].next
             n1 == [c.nodes EXCEPT ![l].prev = c.front, ![l].next = 0]
             n2 == [n1 EXCEPT ![c.front].next = l]
             n3 == [n2 EXCEPT ![next].prev = prev]
             n4 == IF prev # 0 THEN [n3 EXCEPT ![prev].next = next] ELSE n3
         IN [c EXCEPT !.nodes = n4, !.front = l, !.rear = rear]

\* an Add that leaves the value of a cached key as it was
lruStored_old(old, v) == old

\* l.value = v
lruStored(old, v) == v

\* lru.Add
lruAdd(c, k, v) ==
    IF lruLen(c) = 0 THEN lruNewList(c, k, v)
    ELSE IF c.list[k] # 0
         THEN LET l == c.list[k]
              IN lruToFront([c EXCEPT !.nodes[l].value =
                                         lruStored(c.nodes[l].value, v)], l)
         ELSE lruAddNew(c, k, v)

\* lru.Get: the cache after the call, the value and the flag
lruGet(c, k) ==
    IF c.list[k] = 0 THEN [c |-> c, v |-> 0, ok |-> FALSE]
    ELSE LET c1 == lruToFront(c, c.list[k])
         IN [c |-> c1, v |-> c1.nodes[c.list[k]].value, ok |-> TRUE]

InitLru ==
    /\ NoConnection
    /\ options = ZeroOptions
    /\ server = NotCalled
    /\ relay = NoRelay
    /\ gss = NoGss
    /\ codec = NoCodec
    /\ tconn = NoConn
    /\ gauth = NoGauth
    /\ \E size \in 1..MaxSize :
         lru = [active |-> TRUE, size |-> size, cache |-> newCache(size),
                hist |-> << >>]

\* c.Add(k, v)
callAdd(k, v) ==
    /\ lru.active /\ Len(lru.hist) < MaxLruOps
    /\ lru' = [lru EXCEPT
                 !.cache = lruAdd(lru.cache, k, v),
                 !.hist = Append(lru.hist, [op |-> "Add", k |-> k, v |-> v,
                                            ok |-> TRUE])]
    /\ UNCHANGED << connVars, options, server, relay, gss, codec, tconn, gauth >>

\* v, ok := c.Get(k)
callGet(k) ==
    /\ lru.active /\ Len(lru.hist) < MaxLruOps
    /\ LET r == lruGet(lru.cache, k)
       IN lru' = [lru EXCEPT
                    !.cache = r.c,
                    !.hist = Append(lru.hist, [op |-> "Get", k |-> k, v |-> r.v,
                                               ok |-> r.ok])]
    /\ UNCHANGED << connVars, options, server, relay, gss, codec, tconn, gauth >>

NextLru ==
    \/ \E k \in Keys, v \in Values : callAdd(k, v)
    \/ \E k \in Keys : callGet(k)

SpecLru == InitLru /\ [][NextLru]_vars

(* ---------------------------------------------------------------------- *)
(* syncLRU: goroutines calling Add under mu.Lock and Get under mu.RLock.   *)
(* Add runs alone, so it is one step; Get runs statement by statement,     *)
(* because other holders of the read lock run beside it.                   *)
(* ---------------------------------------------------------------------- *)
Goroutines == { 1, 2 }

\* a cache of capacity size that holds the keys 1..n, key n the most recent
RECURSIVE Prefilled(_, _)
Prefilled(size, n) ==
    IF n = 0 THEN newCache(size) ELSE lruAdd(Prefilled(size, n - 1), n, 1)

IdleGoroutine ==
    [pc |-> "idle", op |-> "none", k |-> 0, v |-> 0, l |-> 0, prev |-> 0,
     next |-> 0, ok |-> FALSE]

\* mu.RLock() goes through while no writer holds the mutex
rlockFree(mu) == mu.writer = 0

\* mu.Lock() goes through while nobody holds the mutex
lockFree(mu) == mu.writer = 0 /\ mu.readers = {}

InitSync ==
    /\ NoConnection
    /\ options = ZeroOptions
    /\ server = NotCalled
    /\ relay = NoRelay
    /\ gss = NoGss
    /\ codec = NoCodec
    /\ tconn = NoConn
    /\ gauth = NoGauth
    /\ \E size \in 1..MaxSize, n \in 1..MaxKeys :
         /\ n <= size
         /\ lru = [active |-> TRUE, size |-> size, filled |-> n,
                   cache |-> Prefilled(size, n), hist |-> << >>,
                   mu |-> [writer |-> 0, readers |-> {}],
                   g |-> [x \in Goroutines |-> IdleGoroutine],
                   panicked |-> FALSE]

\* syncLRU.Add: c.mu.Lock()
syncAddLock(x, k, v) ==
    /\ lru.active /\ ~lru.panicked
    /\ lru.g[x].pc = "idle" /\ lockFree(lru.mu)
    /\ lru' = [lru EXCEPT !.mu.writer = x,
                          !.g[x] = [IdleGoroutine EXCEPT !.pc = "Add", !.op = "Add",
                                                         !.k = k, !.v = v]]
    /\ UNCHANGED << connVars, options, server, relay, gss, codec, tconn, gauth >>

\* c.cache.Add(k, v) and the deferred c.mu.Unlock()
syncAdd(x) ==
    /\ lru.active /\ ~lru.panicked
    /\ lru.g[x].pc = "Add"
    /\ lru' = [lru EXCEPT
                 !.cache = lruAdd(lru.cache, lru.g[x].k, lru.g[x].v),
                 !.mu.writer = 0,
                 !.g[x].pc = "done",
                 !.hist = Append(lru.hist, [op |-> "Add", k |-> lru.g[x].k,
                                            v |-> lru.g[x].v, ok |-> TRUE])]
    /\ UNCHANGED << connVars, options, server, relay, gss, codec, tconn, gauth >>

\* syncLRU.Get: c.mu.RLock()
syncGetLock(x, k) ==
    /\ lru.active /\ ~lru.panicked
    /\ lru.g[x].pc = "idle" /\ rlockFree(lru.mu)
    /\ lru' = [lru EXCEPT !.mu.readers = lru.mu.readers \cup { x },
                          !.g[x] = [IdleGoroutine EXCEPT !.pc = "lookup", !.op = "Get",
                                                         !.k = k]]
    /\ UNCHANGED << connVars, options, server, relay, gss, codec, tconn, gauth >>

\* return from Get with the deferred c.mu.RUnlock()
syncReturn(x, v, ok) ==
    [lru EXCEPT !.mu.readers = lru.mu.readers \ { x },
                !.g[x].pc = "done", !.g[x].v = v, !.g[x].ok = ok,
                !.hist = Append(lru.hist, [op |-> "Get", k |-> lru.g[x].k,
                                           v |-> v, ok |-> ok])]

\* the next statement of lru.Get and of the toFront it calls
syncGetStep(x) ==
    /\ lru.active /\ ~lru.panicked
    /\ LET me == lru.g[x]
           c == lru.cache
           l == me.l
       IN CASE me.pc = "lookup" ->
                 \* l := c.list[k]; if l == nil { return *new(V), false }
                 IF c.list[me.k] = 0 THEN lru' = syncReturn(x, 0, FALSE)
                 ELSE lru' = [lru EXCEPT !.g[x].l = c.list[me.k],
                                         !.g[x].pc = "front?"]
            [] me.pc = "front?" ->
                 \* if l.next == nil { return }
                 lru' = [lru EXCEPT !.g[x].pc = IF c.nodes[l].next = 0
                                                THEN "value" ELSE "rear"]
            [] me.pc = "rear" ->
                 \* if l == c.rear { c.rear = l.next }
                 lru' = [lru EXCEPT !.cache.rear = IF l = c.rear THEN c.nodes[l].next
                                                   ELSE c.rear,
                                    !.g[x].pc = "snapshot"]
            [] me.pc = "snapshot" ->
                 \* prev, next := l.prev, l.next
                 lru' = [lru EXCEPT !.g[x].prev = c.nodes[l].prev,
                                    !.g[x].next = c.nodes[l].next,
                                    !.g[x].pc = "l.prev"]
            [] me.pc = "l.prev" ->
                 \* l.prev, l.next = c.front, nil
                 lru' = [lru EXCEPT !.cache.nodes[l].prev = c.front,
                                    !.cache.nodes[l].next = 0,
                                    !.g[x].pc = "front.next"]
            [] me.pc = "front.next" ->
                 \* c.front.next = l
                 lru' = [lru EXCEPT !.cache.nodes[c.front].next = l,
                                    !.g[x].pc = "front"]
            [] me.pc = "front" ->
                 \* c.front = l
                 lru' = [lru EXCEPT !.cache.front = l, !.g[x].pc = "next.prev"]
            [] me.pc = "next.prev" ->
                 \* next.prev = prev: a nil next is a nil pointer dereference
                 IF me.next = 0
                 THEN lru' = [lru EXCEPT !.panicked = TRUE, !.g[x].pc = "panic"]
                 ELSE lru' = [lru EXCEPT !.cache.nodes[me.next].prev = me.prev,
                                         !.g[x].pc = "prev.next"]
            [] me.pc = "prev.next" ->
                 \* if prev != nil { prev.next = next }
                 lru' = [lru EXCEPT !.cache.nodes = IF me.prev # 0
                                        THEN [c.nodes EXCEPT ![me.prev].next = me.next]
                                        ELSE c.nodes,
                                    !.g[x].pc = "value"]
            [] me.pc = "value" ->
                 \* return l.value, true
                 lru' = syncReturn(x, c.nodes[l].value, TRUE)
            [] OTHER -> FALSE
    /\ UNCHANGED << connVars, options, server, relay, gss, codec, tconn, gauth >>

NextSync ==
    \/ \E x \in Goroutines, k \in Keys, v \in Values : syncAddLock(x, k, v)
    \/ \E x \in Goroutines : syncAdd(x)
    \/ \E x \in Goroutines, k \in Keys : syncGetLock(x, k)
    \/ \E x \in Goroutines : syncGetStep(x)

SpecSync == InitSync /\ [][NextSync]_vars

(* ---------------------------------------------------------------------- *)
(* Reading the trace                                                       *)
(* ---------------------------------------------------------------------- *)
Calls(name) == { i \in 1..Len(trace) : trace[i].ev = "call" /\ trace[i].name = name }
Reads(name) == { i \in 1..Len(trace) : trace[i].ev = "read" /\ trace[i].name = name }
Writes(name) == { i \in 1..Len(trace) : trace[i].ev = "write" /\ trace[i].name = name }
AllWrites == { i \in 1..Len(trace) : trace[i].ev = "write" }

\* the host callbacks of the command stage
CommandCalls == Calls("connect") \cup Calls("listen") \cup Calls("Accept")

\* the bytes the engine has put on the client stream, in order
RECURSIVE WrittenFrom(_)
WrittenFrom(i) ==
    IF i > Len(trace) THEN << >>
    ELSE (IF trace[i].ev = "write" THEN trace[i].bytes ELSE << >>)
         \o WrittenFrom(i + 1)
Written == WrittenFrom(1)

AuthFailed == \E i \in Calls("auth") : ~trace[i].ok
AuthSucceeded == \E i \in Calls("auth") : trace[i].ok

(* ---------------------------------------------------------------------- *)
(* C1: the CONNECT and BIND callbacks are invoked only after the chosen    *)
(* handler's auth returned success; when auth returns an error the engine  *)
(* terminates with no CommandRequest read, no CommandReply written and no  *)
(* command callback invoked.                                               *)
(* ---------------------------------------------------------------------- *)
C1_AuthGatesCommands ==
    /\ \A i \in CommandCalls : \E j \in Calls("auth") : j < i /\ trace[j].ok
    /\ AuthFailed =>
         /\ pc = "done"
         /\ Reads("commandRequest") = {}
         /\ Writes("commandReply") = {}
         /\ CommandCalls = {}

C1_Witness == AuthFailed /\ pc = "done" /\ method = "usernameAuth"

(* ---------------------------------------------------------------------- *)
(* C2: after a valid MethodRequest the chosen handler is the one           *)
(* configured for the first code of the client's list, in the order        *)
(* received, that has a handler; state.methods is the client's list in     *)
(* the client's order.                                                     *)
(* ---------------------------------------------------------------------- *)
C2_FirstOfferedWins ==
    pc \in { "authenticate", "failAuth" } =>
        LET sent == trace[1].bytes
            table == authMethods(opts)
            hits == { i \in 1..Len(methods) : methods[i] \in DOMAIN table }
        IN /\ trace[1].ev = "read" /\ trace[1].name = "authRequest"
           /\ Len(methods) = sent[2]
           /\ \A i \in 1..Len(methods) : methods[i] = sent[2 + i]
           /\ (pc = "failAuth") = (hits = {})
           /\ pc = "authenticate" =>
                \E i \in hits : /\ \A j \in hits : i <= j
                                /\ method = table[methods[i]]

\* the client lists a higher configured code before a lower configured one
C2_Witness ==
    /\ pc = "authenticate"
    /\ Len(methods) = 2
    /\ methods[1] = typeLogin /\ methods[2] = typeNoAuth
    /\ opts.AllowNoAuth /\ opts.Authenticate /\ ~opts.GSSAPI
    /\ method = "usernameAuth"

(* ---------------------------------------------------------------------- *)
(* C3: the MethodReply written for a chosen handler is 0x05 m with m one   *)
(* of the codes the client offered.                                        *)
(* ---------------------------------------------------------------------- *)
C3_ReplyIsOfferedCode ==
    \A i \in Writes("authReply") :
        (trace[i].ok /\ method # "none") =>
            /\ trace[i].bytes[1] = protoVersion
            /\ \E k \in 1..Len(methods) : methods[k] = trace[i].bytes[2]

(* ---------------------------------------------------------------------- *)
(* C4: when no offered code has a handler the only bytes written on the    *)
(* connection are 0x05 0xFF, then the engine terminates: no auth handler   *)
(* runs, no CommandRequest is read, no host callback is invoked.           *)
(* ---------------------------------------------------------------------- *)
NoneOffered ==
    /\ Reads("authRequest") # {}
    /\ trace[1].ok
    /\ authRequestValidate(authRequestReadFrom(trace[1].bytes).msg) = NoErr
    /\ \A k \in 1..Len(methods) : methods[k] \notin DOMAIN authMethods(opts)

C4_RejectsWithFF ==
    NoneOffered =>
        /\ pc \in { "failAuth", "done" }
        /\ IsPrefix(Written, << 5, 255 >>)
        /\ (pc = "done" /\ \A i \in AllWrites : trace[i].ok) => Written = << 5, 255 >>
        /\ { i \in 1..Len(trace) : trace[i].ev = "call" } = {}
        /\ Reads("commandRequest") = {}
        /\ Reads("loginRequest") = {} /\ Reads("gssapiMessage") = {}

C4_Witness == NoneOffered /\ pc = "done" /\ Written = << 5, 255 >>
(* ---------------------------------------------------------------------- *)
(* C5: after failCommand has written its reply the engine terminates and   *)
(* never returns to the command stage; at most one CommandRequest is read  *)
(* and each host callback is called at most once, in state-machine order.  *)
(* ---------------------------------------------------------------------- *)
C5_Once ==
    /\ Cardinality(Reads("commandRequest")) <= 1
    /\ \A n \in { "auth", "authenticator", "connect", "listen", "Accept" } :
         Cardinality(Calls(n)) <= 1
    /\ \A i \in Calls("auth") : \A j \in Reads("commandRequest") : i < j
    /\ \A i \in Reads("commandRequest") : \A j \in CommandCalls : i < j
    /\ \A i \in Calls("listen") : \A j \in Calls("Accept") : i < j

C5_FailCommandTerminates ==
    [][ /\ pc = "failCommand" => pc' = "done"
        /\ C5_Once' ]_vars

C5_Witness ==
    /\ pc = "done"
    /\ Calls("connect") # {}
    /\ \E i \in Writes("commandReply") : trace[i].ok /\ trace[i].bytes[2] # succeeded

(* ---------------------------------------------------------------------- *)
(* C6 as stated: on every failure path the client gets exactly one         *)
(* MethodReply and at most one CommandReply, for every command.            *)
(* ---------------------------------------------------------------------- *)
FailurePath == pc = "done" /\ Calls("link") = {}

C6_Original ==
    (FailurePath /\ methods # << >> /\ \A i \in AllWrites : trace[i].ok) =>
        /\ Cardinality(Writes("authReply")) = 1
        /\ Cardinality(Writes("commandReply")) <= 1

(* ---------------------------------------------------------------------- *)
(* C6 amended: on every failure path the client gets at most one           *)
(* MethodReply (exactly one once a valid MethodRequest was read, none      *)
(* before) and zero or one whole CommandReply, except a BIND that fails at *)
(* accept or at the peer address after its first Succeeded reply: there    *)
(* the failure reply (GeneralFailure) is a second CommandReply.            *)
(* ---------------------------------------------------------------------- *)
C6_RepliesOnFailure ==
    FailurePath =>
        LET cr == { i \in Writes("commandReply") : trace[i].ok }
        IN /\ Cardinality(Writes("authReply")) = IF methods # << >> THEN 1 ELSE 0
           /\ methods = << >> => AllWrites = {}
           /\ Cardinality(cr) <= 2
           /\ Cardinality(cr) = 2 =>
                /\ command.commandType = bind
                /\ \E i, j \in cr :
                     /\ i < j
                     /\ trace[i].bytes[2] = succeeded
                     /\ \E k \in Calls("Accept") : i < k /\ k < j
                     /\ trace[j].bytes[2] = sockFailure

C6_Witness ==
    /\ FailurePath
    /\ Cardinality({ i \in Writes("commandReply") : trace[i].ok }) = 2
    /\ \E k \in Calls("Accept") : ~trace[k].ok

(* ---------------------------------------------------------------------- *)
(* C7: when the CONNECT callback returns an error runConnect sets the      *)
(* status by the table NotAllowed 2, HostUnreachable 4, ConnectionRefused  *)
(* 5, NetworkUnreachable 3, TTLExpired 6, any other 1, also for wrapped    *)
(* errors, moves to failCommand and reports the callback's error.          *)
(* ---------------------------------------------------------------------- *)
StatusTable(leaf) ==
    CASE leaf = "ErrNotAllowed" -> 2
      [] leaf = "ErrHostUnreachable" -> 4
      [] leaf = "ErrConnectionRefused" -> 5
      [] leaf = "ErrNetworkUnreachable" -> 3
      [] leaf = "ErrTTLExpired" -> 6
      [] OTHER -> 1

ConnectFailedNow ==
    /\ trace # << >>
    /\ trace[Len(trace)].ev = "call" /\ trace[Len(trace)].name = "connect"
    /\ ~trace[Len(trace)].ok

C7_ConnectErrorTable ==
    ConnectFailedNow =>
        LET e == trace[Len(trace)].e
        IN /\ status = StatusTable(e[Len(e)])
           /\ pc = "failCommand"
           /\ err = e
           /\ reported # << >> /\ reported[Len(reported)] = e

C7_Witness ==
    /\ ConnectFailedNow
    /\ trace[Len(trace)].e = << "wrapped", "ErrNotAllowed" >>
    /\ status = notAllowed

(* ---------------------------------------------------------------------- *)
(* C8: on CONNECT success exactly one CommandReply is written, with        *)
(* status Succeeded and the local address and port of the target socket    *)
(* (ATYP 1 for an IPv4 address, 4 for IPv6, never DomainName); the relay   *)
(* starts only after that reply has been written and not at all when       *)
(* writing it fails.                                                       *)
(* ---------------------------------------------------------------------- *)
IsV4Mapped(ip) ==
    Len(ip) = 16 /\ (\A i \in 1..10 : ip[i] = 0) /\ ip[11] = 255 /\ ip[12] = 255

BoundBytes(a) ==
    (IF Len(a.ip) = 4 THEN << 1 >> \o a.ip
     ELSE IF IsV4Mapped(a.ip) THEN << 1 >> \o SubSeq(a.ip, 13, 16)
     ELSE << 4 >> \o a.ip)
    \o << a.port \div 256, a.port % 256 >>

C8_ConnectReplyBeforeRelay ==
    command.commandType = connect =>
        /\ Cardinality(Writes("commandReply")) <= 1
        /\ \A l \in Calls("link") :
             /\ l >= 3
             /\ trace[l - 2].ev = "call" /\ trace[l - 2].name = "connect"
             /\ trace[l - 2].ok
             /\ trace[l - 1].ev = "write" /\ trace[l - 1].name = "commandReply"
             /\ trace[l - 1].ok
             /\ trace[l - 1].bytes = << 5, 0, 0 >> \o BoundBytes(trace[l - 2].addr)
             /\ trace[l - 1].bytes[4] # domainName
        /\ (\E i \in Writes("commandReply") : ~trace[i].ok) => Calls("link") = {}
        /\ pc = "link" => Calls("link") # {}

C8_Witness ==
    /\ command.commandType = connect
    /\ pc = "link"
    /\ \E i \in Calls("connect") : IsV4Mapped(trace[i].addr.ip)

(* ---------------------------------------------------------------------- *)
(* C9 as stated: when CONNECT succeeds but the target's local address is   *)
(* not a TCP address, a CommandReply with status GeneralFailure is         *)
(* written before the engine terminates.                                   *)
(* ---------------------------------------------------------------------- *)
ConnectedNonTCP == \E i \in Calls("connect") : trace[i].ok /\ ~trace[i].addr.tcp

C9_Original ==
    (ConnectedNonTCP /\ pc = "done") =>
        \E i \in Writes("commandReply") :
            Len(trace[i].bytes) >= 2 /\ trace[i].bytes[2] = sockFailure

(* ---------------------------------------------------------------------- *)
(* C9 amended: when CONNECT succeeds but the target's local address is     *)
(* not a TCP address, the engine terminates with a "local address" error   *)
(* without writing any CommandReply and without starting the relay.        *)
(* ---------------------------------------------------------------------- *)
C9_NonTCPTerminatesSilently ==
    ConnectedNonTCP =>
        /\ pc = "done"
        /\ Writes("commandReply") = {}
        /\ Calls("link") = {}
        /\ err = << "local address", "it is not tcp addr" >>

C9_Witness == ConnectedNonTCP /\ pc = "done"

(* ---------------------------------------------------------------------- *)
(* C10: every CommandReply written by failCommand has status equal to      *)
(* state.status, reserved 0, and ATYP, address and port identical to the   *)
(* client's CommandRequest.                                                *)
(* ---------------------------------------------------------------------- *)
C10_FailReplyEchoesRequest ==
    [][ pc = "failCommand" =>
          LET w == trace'[Len(trace')]
              req == trace[CHOOSE i \in Reads("commandRequest") : TRUE].bytes
              want == << 5, status, 0 >> \o SubSeq(req, 4, Len(req))
          IN /\ Len(trace') = Len(trace) + 1
             /\ w.ev = "write" /\ w.name = "commandReply"
             /\ IsPrefix(w.bytes, want)
             /\ w.ok => w.bytes = want ]_vars

C10_Witness ==
    \E i \in Writes("commandReply") :
        trace[i].bytes = << 5, 7, 0, 1, 192, 168, 0, 1, 31, 144 >>
(* ---------------------------------------------------------------------- *)
(* C11: a valid CommandRequest with Cmd = UdpAssociate or with a Cmd       *)
(* outside {1, 2, 3} gets exactly one CommandReply, with status            *)
(* CommandNotSupported (7); no host callback is invoked and the engine     *)
(* then terminates.                                                        *)
(* ---------------------------------------------------------------------- *)
\* the bytes of the CommandRequest that was read
RequestBytes == trace[CHOOSE i \in Reads("commandRequest") : TRUE].bytes

\* the failure reply the request calls for, with status st
ReplyFor(st) == << 5, st, 0 >> \o SubSeq(RequestBytes, 4, Len(RequestBytes))

\* a valid request was accepted and its command is neither CONNECT nor BIND
UnsupportedCommand ==
    /\ command # ZeroCommand
    /\ command.commandType \notin {1, 2}

C11_UnsupportedCommand ==
    UnsupportedCommand =>
        /\ pc \in { "runUDPAssoc", "failCommand", "done" }
        /\ CommandCalls = {} /\ Calls("link") = {}
        /\ Cardinality(Writes("commandReply")) = IF pc = "done" THEN 1 ELSE 0
        /\ pc = "failCommand" => status = 7
        /\ \A i \in Writes("commandReply") :
             /\ i = Len(trace)
             /\ IsPrefix(trace[i].bytes, ReplyFor(7))
             /\ trace[i].ok => trace[i].bytes = ReplyFor(7)

C11_Witness ==
    /\ UnsupportedCommand
    /\ command.commandType = 3
    /\ pc = "done"
    /\ \E i \in Writes("commandReply") : trace[i].ok

(* ---------------------------------------------------------------------- *)
(* C12: with no BIND callback configured every valid BIND request gets     *)
(* exactly one CommandReply, with status NotAllowedByRuleset (2); the      *)
(* listener callback and accept are never called and the engine then       *)
(* terminates.                                                             *)
(* ---------------------------------------------------------------------- *)
BindWithoutBackend == command.commandType = 2 /\ ~opts.listen

C12_BindNotConfigured ==
    BindWithoutBackend =>
        /\ pc \in { "runBind", "failCommand", "done" }
        /\ Calls("listen") = {} /\ Calls("Accept") = {} /\ Calls("link") = {}
        /\ Cardinality(Writes("commandReply")) = IF pc = "done" THEN 1 ELSE 0
        /\ pc = "failCommand" => status = 2
        /\ \A i \in Writes("commandReply") :
             /\ i = Len(trace)
             /\ IsPrefix(trace[i].bytes, ReplyFor(2))
             /\ trace[i].ok => trace[i].bytes = ReplyFor(2)

C12_Witness ==
    /\ BindWithoutBackend
    /\ pc = "done"
    /\ \E i \in Writes("commandReply") : trace[i].ok /\ trace[i].bytes[2] = 2

(* ---------------------------------------------------------------------- *)
(* C13: when the CommandRequest carries an ATYP byte other than 1, 3 or 4  *)
(* the engine terminates without writing any CommandReply and without      *)
(* invoking any host callback; nothing past the four header bytes is read. *)
(* ---------------------------------------------------------------------- *)
BadAddressType ==
    \E i \in Reads("commandRequest") :
        Len(trace[i].bytes) >= 4 /\ trace[i].bytes[4] \notin {1, 3, 4}

C13_BadAddressTypeCloses ==
    BadAddressType =>
        /\ pc = "done"
        /\ Writes("commandReply") = {}
        /\ CommandCalls = {} /\ Calls("link") = {}
        /\ command = ZeroCommand
        /\ err = << "sock read", "errInvalidAddrType" >>
        /\ \A i \in Reads("commandRequest") :
             i = Len(trace) /\ Len(trace[i].bytes) = 4 /\ ~trace[i].ok

C13_Witness == BadAddressType /\ pc = "done" /\ AuthSucceeded

(* ---------------------------------------------------------------------- *)
(* C14: for BIND with a backend the first CommandReply (Succeeded, the     *)
(* listener's local address and port) is written before accept is called;  *)
(* after accept returns a second CommandReply (Succeeded, the peer's        *)
(* remote address and port) is written, and only then the relay starts.    *)
(* ---------------------------------------------------------------------- *)
IsCall(i, name) == trace[i].ev = "call" /\ trace[i].name = name
IsWholeReply(i) ==
    trace[i].ev = "write" /\ trace[i].name = "commandReply" /\ trace[i].ok

C14_BindTwoReplies ==
    command.commandType = 2 =>
        /\ \A a \in Calls("Accept") :
             /\ a >= 3
             /\ IsCall(a - 2, "listen") /\ trace[a - 2].ok
             /\ IsWholeReply(a - 1)
             /\ trace[a - 1].bytes = << 5, 0, 0 >> \o BoundBytes(trace[a - 2].addr)
        /\ \A l \in Calls("link") :
             /\ l >= 5
             /\ IsCall(l - 2, "Accept") /\ trace[l - 2].ok
             /\ IsWholeReply(l - 1)
             /\ trace[l - 1].bytes = << 5, 0, 0 >> \o BoundBytes(trace[l - 2].addr)
             /\ Cardinality(Writes("commandReply")) = 2
        /\ pc = "link" => Calls("link") # {}

C14_Witness ==
    /\ command.commandType = 2
    /\ pc = "link"
    /\ \E i \in Calls("listen") : \E j \in Calls("Accept") :
         trace[i].addr.port = 40000 /\ trace[j].addr.port = 40002

(* ---------------------------------------------------------------------- *)
(* C15: when auth succeeds the stream it returns replaces the engine's     *)
(* stream, and the CommandRequest, every CommandReply and the relay go     *)
(* through that stream, never through the raw one directly; when auth      *)
(* fails, and before it ran, the engine's stream is the raw one.           *)
(* ---------------------------------------------------------------------- *)
\* the stream the chosen handler hands back on success
ReturnedStream == IF method = "gssapiAuth" THEN "gss" ELSE "raw"

C15_StreamReplaced ==
    /\ AuthSucceeded =>
         /\ conn = ReturnedStream
         /\ \A i \in Reads("commandRequest") \cup Writes("commandReply")
                      \cup Calls("link") : trace[i].via = ReturnedStream
    /\ ~AuthSucceeded =>
         /\ conn = "raw"
         /\ Reads("commandRequest") = {}
    /\ \A i \in Writes("authReply") \cup Reads("authRequest") : trace[i].via = "raw"

C15_Witness ==
    /\ AuthSucceeded
    /\ method = "gssapiAuth"
    /\ \E i \in Calls("link") : trace[i].via = "gss"

(* ---------------------------------------------------------------------- *)
(* C16: usernameAuth.auth, for a LoginRequest that passes validation,      *)
(* calls verify exactly once and always writes a LoginReply 0x01 s with    *)
(* s = 0x00 iff verify returned no error and s = 0xFF otherwise; it        *)
(* returns an error iff verify failed or the write failed, and it returns  *)
(* the stream it was given.                                                *)
(* ---------------------------------------------------------------------- *)
ValidLogin(i) ==
    /\ trace[i].ev = "read" /\ trace[i].name = "loginRequest" /\ trace[i].ok
    /\ LET b == trace[i].bytes
       IN b[1] = 1 /\ b[2] > 0 /\ b[3 + b[2]] > 0

C16_LoginReplyAlways ==
    \A i \in 1..Len(trace) :
        ValidLogin(i) =>
            /\ Len(trace) >= i + 2
            /\ IsCall(i - 1, "auth")
            /\ IsCall(i + 1, "authenticator")
            /\ Calls("authenticator") = { i + 1 }
            /\ Writes("loginReply") = { i + 2 }
            /\ LET s == IF trace[i + 1].ok THEN 0 ELSE 255
               IN /\ IsPrefix(trace[i + 2].bytes, << 1, s >>)
                  /\ trace[i + 2].ok => trace[i + 2].bytes = << 1, s >>
            /\ trace[i - 1].ok = (trace[i + 1].ok /\ trace[i + 2].ok)
            /\ Reads("commandRequest") = {} => conn = "raw"
            /\ \A j \in { i, i + 2 } : trace[j].via = "raw"

C16_Witness ==
    /\ \E i \in 1..Len(trace) : ValidLogin(i)
    /\ \E i \in Calls("authenticator") : ~trace[i].ok
    /\ \E i \in Writes("loginReply") : trace[i].bytes = << 1, 255 >>
    /\ pc = "done"
(* ---------------------------------------------------------------------- *)
(* C17: every error returned by a transition is delivered to the error     *)
(* sink exactly once, the error of the transition that ends the            *)
(* connection included (such as EOF on the very first read).               *)
(* ---------------------------------------------------------------------- *)
C17_EveryErrorDelivered ==
    /\ err # NoErr =>
         /\ reported # << >>
         /\ reported[Len(reported)] = err
    /\ \A i, j \in 1..Len(reported) : reported[i] = reported[j] => i = j

(* ---------------------------------------------------------------------- *)
(* C18: New returns a configuration error, and no handler, iff none of     *)
(* AllowNoAuth, Authenticate and GSSAPI is enabled; otherwise it returns a *)
(* handler whose connect callback is the given one or the default dialer   *)
(* and whose BIND backend is set iff the option was given.                 *)
(* ---------------------------------------------------------------------- *)
NoMethodEnabled ==
    ~options.AllowNoAuth /\ ~options.Authenticate /\ ~options.GSSAPI

C18_NewConfigError ==
    server.called =>
        /\ (server.err # NoErr) = NoMethodEnabled
        /\ server.err # NoErr =>
             /\ DOMAIN server.auth = {}
             /\ server.connect = "nil" /\ ~server.listen
        /\ server.err = NoErr =>
             /\ DOMAIN server.auth # {}
             /\ server.connect = IF options.Connect THEN "opts.Connect"
                                 ELSE "defaultConnect"
             /\ server.listen = options.listen

C18_Witness ==
    /\ server.called
    /\ NoMethodEnabled /\ options.Connect /\ options.listen
    /\ server.err # NoErr

(* ---------------------------------------------------------------------- *)
(* C19: the handler table built from Options maps every key to a handler   *)
(* whose method() equals that key: AllowNoAuth adds exactly key 0,         *)
(* Authenticate exactly key 2, GSSAPI exactly key 1.                       *)
(* ---------------------------------------------------------------------- *)
C19_TableKeysMatch ==
    (server.called /\ server.err = NoErr) =>
        /\ \A k \in DOMAIN server.auth : handlerMethod(server.auth[k]) = k
        /\ DOMAIN server.auth =
              (IF options.AllowNoAuth THEN {0} ELSE {})
              \cup (IF options.Authenticate THEN {2} ELSE {})
              \cup (IF options.GSSAPI THEN {1} ELSE {})

(* ---------------------------------------------------------------------- *)
(* C20: in every interleaving of the two copy directions of link, also     *)
(* when one direction fails before the other ends, Close is called at most *)
(* once on each stream, and once both directions have ended it has been    *)
(* called exactly once on the client stream and exactly once on the        *)
(* target stream.                                                          *)
(* ---------------------------------------------------------------------- *)
BothEnded == relay.pc["up"] = "done" /\ relay.pc["down"] = "done"

C20_ClosedOnce ==
    relay # NoRelay =>
        /\ relay.closes["client"] <= 1 /\ relay.closes["target"] <= 1
        /\ \A d \in { "up", "down" } :
             relay.pc[d] = "done" => relay.closes[copyDst(d)] = 1
        /\ BothEnded => relay.closes["client"] = 1 /\ relay.closes["target"] = 1
        /\ relay.returned => relay.closes["client"] = 1

\* the client-to-target copy fails on a write while the other direction
\* is still copying, and both have ended
C20_Witness ==
    /\ BothEnded
    /\ Len(relay.ended) = 2
    /\ relay.ended[1] = << "up", "write error" >>
    /\ relay.ended[2][2] = "closed"
    /\ relay.closes["client"] = 1 /\ relay.closes["target"] = 1
(* ---------------------------------------------------------------------- *)
(* C21: when either copy direction of link ends, the stream the other      *)
(* direction reads from gets closed; given that Close makes a pending      *)
(* Read return, both directions eventually end and link returns.           *)
(* ---------------------------------------------------------------------- *)
OtherDirection(d) == IF d = "up" THEN "down" ELSE "up"

C21_OtherDirectionUnblocked ==
    /\ [](\A d \in { "up", "down" } :
            (relay # NoRelay /\ relay.pc[d] = "done") =>
                relay.closes[copySrc(OtherDirection(d))] >= 1)
    /\ (relay.ended # << >>) ~> (BothEnded /\ relay.returned)

\* the target-to-client copy ends with EOF while the other direction waits
\* in a Read, which then returns because its stream was closed
C21_Witness ==
    /\ BothEnded /\ relay.returned
    /\ relay.ended = << << "down", "EOF" >>, << "up", "closed" >> >>

(* ---------------------------------------------------------------------- *)
(* C22: at every moment of the relay the bytes written to the target are   *)
(* a prefix of the bytes the client sent, in order and unmodified, and the *)
(* bytes written to the client are a prefix of the bytes the target sent;  *)
(* a step of one direction leaves the other direction as it was.           *)
(* ---------------------------------------------------------------------- *)
\* nothing of direction d is lost or reordered while it is copying
InOrder(r, d, dst, base) ==
    /\ IsPrefix(r.out[dst], RelayBytes(base, MaxRelay))
    /\ r.pc[d] \in { "read", "write" } =>
         \E k \in 0..MaxRelay :
            r.out[dst] \o r.buf[d] \o r.pending[d] = RelayBytes(base, k)

Untouched(d, dst) ==
    /\ relay'.out[dst] = relay.out[dst]
    /\ relay'.buf[d] = relay.buf[d]
    /\ relay'.pending[d] = relay.pending[d]
    /\ relay'.pc[d] = relay.pc[d]

C22_RelayPreservesBytes ==
    [][ /\ InOrder(relay', "up", "target", 0)
        /\ InOrder(relay', "down", "client", 100)
        /\ IsPrefix(relay.out["target"], relay'.out["target"])
        /\ IsPrefix(relay.out["client"], relay'.out["client"])
        /\ Untouched("up", "target") \/ Untouched("down", "client") ]_vars

\* the client's bytes have all reached the target while nothing has moved
\* the other way yet
C22_Witness ==
    /\ relay # NoRelay
    /\ relay.out["target"] = RelayBytes(0, MaxRelay)
    /\ relay.out["client"] = << >>
    /\ relay.pending["down"] = RelayBytes(100, MaxRelay)
    /\ relay.ended = << >>
(* ---------------------------------------------------------------------- *)
(* C23: gssConn.Read delivers the decoded payload of every Encapsulation   *)
(* frame completely and in order across successive Read calls: the tail    *)
(* that did not fit the caller's buffer is returned by the following       *)
(* calls, and no further frame is consumed before that tail is drained.    *)
(* ---------------------------------------------------------------------- *)
C23_ReadDeliversWholePayload ==
    gss.active =>
        gss.delivered \o gss.buffer = gss.consumed

(* ---------------------------------------------------------------------- *)
(* C24: gssConn.Write splits p into consecutive chunks of at most 2^16 - 5 *)
(* bytes and emits each, encoded, as one GssMessage with subversion 1 and  *)
(* Mtype Encapsulation, the chunks adding up to p; a peer reading through  *)
(* gssConn.Read recovers exactly p.                                        *)
(* ---------------------------------------------------------------------- *)
\* the frames of a raw byte sequence, read one after the other
RECURSIVE WireChunks(_)
WireChunks(bs) ==
    IF Len(bs) = 0 THEN [ok |-> TRUE, data |-> << >>, largest |-> 0]
    ELSE LET r == gssapiMessageReadFrom(bs)
             d == GssDecode(r.msg.token)
         IN IF \/ r.err # NoErr
               \/ r.msg.version # subnVersion
               \/ r.msg.messageType # gssEncapsulation
               \/ d.err # NoErr
            THEN [ok |-> FALSE, data |-> << >>, largest |-> 0]
            ELSE LET rest == WireChunks(Drop(bs, r.n))
                 IN [ok |-> rest.ok, data |-> d.data \o rest.data,
                     largest |-> IF Len(d.data) > rest.largest
                                 THEN Len(d.data) ELSE rest.largest]

WriteSucceeded == gss.active /\ gss.wpc = "returned" /\ gss.werr = NoErr

ReadToTheEnd == gss.rpc = "ended" /\ gss.rerr = << "EOF" >> /\ gss.pipe = << >>

C24_WriteChunksRoundTrip ==
    WriteSucceeded =>
        /\ LET w == WireChunks(gss.wire)
           IN w.ok /\ w.data = gss.p0 /\ w.largest <= maxChunkSize
        /\ ReadToTheEnd => gss.delivered = gss.p0
(* ---------------------------------------------------------------------- *)
(* C25: commandRequest.ReadFrom, on an address type byte that is not 0x01, *)
(* 0x03 or 0x04, returns errInvalidAddrType having consumed exactly the    *)
(* four header bytes, and leaves the address empty.                        *)
(* ---------------------------------------------------------------------- *)
ReadUnknownAType ==
    /\ codec.op = "commandRequest.ReadFrom"
    /\ Len(codec.in) > 4
    /\ codec.in[4] \notin { 1, 3, 4 }

C25_UnknownATypeStopsReader ==
    ReadUnknownAType =>
        /\ codec.out.err = << "errInvalidAddrType" >>
        /\ codec.out.n = 4
        /\ codec.out.msg.addr = << >>
        /\ codec.out.msg.port = 0

C25_Witness ==
    /\ ReadUnknownAType
    /\ codec.in = << protoVersion, connect, 0, 0, 3, 97, 98, 99 >> \o U16(80)
    /\ codec.out.n = 4

(* ---------------------------------------------------------------------- *)
(* C26: commandReply.WriteTo returns errInvalidAddrType when the address   *)
(* type is IPv4 and the address is not 4 bytes, IPv6 and not 16 bytes, or  *)
(* not one of 0x01, 0x03, 0x04; every reply it emits completely has an     *)
(* address part whose length matches the address type (4, 16 or 1 + N).    *)
(* ---------------------------------------------------------------------- *)
WroteReply == codec.op = "commandReply.WriteTo"

AddrDisagrees(r) ==
    \/ r.addressType = 1 /\ Len(r.addr) # 4
    \/ r.addressType = 4 /\ Len(r.addr) # 16
    \/ r.addressType \notin { 1, 3, 4 }

\* the length of the address part of an emitted reply, by its ATYP byte
AddrPartLen(bs) ==
    IF bs[4] = 1 THEN 4 ELSE IF bs[4] = 4 THEN 16 ELSE 1 + bs[5]

C26_ReplyAddrMatchesType ==
    WroteReply =>
        /\ AddrDisagrees(codec.in) => codec.out.err = << "errInvalidAddrType" >>
        /\ codec.out.err = NoErr =>
             /\ codec.out.bytes[4] \in { 1, 3, 4 }
             /\ Len(codec.out.bytes) = 4 + AddrPartLen(codec.out.bytes) + 2

C26_Witness ==
    /\ WroteReply
    /\ codec.in.addressType = 4 /\ Len(codec.in.addr) = 4
    /\ codec.out.err = << "errInvalidAddrType" >>

(* ---------------------------------------------------------------------- *)
(* C27: commandReply.WriteTo with address type DomainName rejects an       *)
(* address of length 0 or of length above 255 with an error instead of     *)
(* truncating the length byte modulo 256; on that error nothing is written *)
(* and the returned count is 0.                                            *)
(* ---------------------------------------------------------------------- *)
C27_DomainLengthRejected ==
    (/\ WroteReply
     /\ codec.in.addressType = 3
     /\ Len(codec.in.addr) = 0 \/ Len(codec.in.addr) > 255) =>
        /\ codec.out.err # NoErr
        /\ codec.out.bytes = << >>
        /\ codec.out.n = 0

(* ---------------------------------------------------------------------- *)
(* C28: an encoder that rejects its frame writes nothing:                  *)
(* gssapiMessage.WriteTo with a token longer than 65535 bytes, and         *)
(* commandReply.WriteTo with an address that disagrees with its address    *)
(* type, return an error with no byte written and a count of 0.            *)
(* ---------------------------------------------------------------------- *)
C28_RejectedFrameWritesNothing ==
    (\/ codec.op = "gssapiMessage.WriteTo" /\ Len(codec.in.token) > 65535
     \/ WroteReply /\ AddrDisagrees(codec.in)) =>
        /\ codec.out.err # NoErr
        /\ codec.out.bytes = << >>
        /\ codec.out.n = 0

(* ---------------------------------------------------------------------- *)
(* C29: for every GssMessage m with subversion 1 and a token of at most    *)
(* 65535 bytes, 0 included, ReadFrom applied to the bytes of WriteTo(m)    *)
(* yields a message equal to m, and both report the count 4 + len(token).  *)
(* ---------------------------------------------------------------------- *)
ReadBack == codec.op = "gssapiMessage.ReadFrom"

C29_GssMessageRoundTrip ==
    /\ (/\ codec.op = "gssapiMessage.WriteTo"
        /\ codec.in.version = 1
        /\ Len(codec.in.token) <= 65535) =>
            /\ codec.out.err = NoErr
            /\ codec.out.n = 4 + Len(codec.in.token)
    /\ ReadBack =>
            /\ codec.out.err = NoErr
            /\ codec.out.msg = codec.in
            /\ codec.out.n = 4 + Len(codec.in.token)
            /\ codec.out.n = codec.wrote.n

\* a token whose length needs the high byte of the length field
C29_Witness ==
    /\ ReadBack
    /\ Len(codec.in.token) = 256
    /\ codec.in.messageType = 3
    /\ codec.out.msg.token = codec.in.token
    /\ codec.out.n = 260
(* ---------------------------------------------------------------------- *)
(* C30: every Read, Write, ReadFrom and WriteTo on tcpConnWithTimeout      *)
(* first sets the socket's deadline to the time of the call plus idle and  *)
(* then delegates, so the deadline is never less than idle after the start *)
(* of the most recent operation; idle is the configured MaxConnIdle, or    *)
(* 3 minutes when MaxConnIdle is not positive.                             *)
(* ---------------------------------------------------------------------- *)
Idle == IF options.MaxConnIdle > 0 THEN options.MaxConnIdle ELSE 3

Delegating(c) == tconn.pc[c] \in { "Read", "Write", "ReadFrom", "WriteTo" }

GaIs(i, kind, name) == gauth.log[i].ev = kind /\ gauth.log[i].name = name

Accepts == { i \in 1..Len(gauth.log) : GaIs(i, "call", "AcceptContext") }

InPhaseB(i) == gauth.log[i].phase \in { "B.read", "B.decode", "B.level",
                                        "B.encode", "B.write" }

\* what follows entry i of the log: the phase and pass of the next entry,
\* or of the statement the run is at
NextPhase(i) == IF Len(gauth.log) > i THEN gauth.log[i + 1].phase ELSE gauth.pc
NextIter(i) == IF Len(gauth.log) > i THEN gauth.log[i + 1].iter ELSE gauth.iter

AcceptedPass(i) ==
    LET tok == gauth.log[i].bytes
        it == gauth.log[i].iter
    IN Len(gauth.log) > i =>
        /\ GaIs(i + 1, "write", "gssapiMessage")
        /\ gauth.log[i + 1].iter = it
        /\ IsPrefix(gauth.log[i + 1].bytes, << 1, 1 >> \o U16(Len(tok)) \o tok)
        /\ gauth.log[i + 1].ok =>
             /\ gauth.log[i + 1].bytes = << 1, 1 >> \o U16(Len(tok)) \o tok
             /\ IF gauth.log[i].complete \/ tok = << >>
                THEN NextPhase(i + 1) = "B.read"
                ELSE NextPhase(i + 1) = "A.read" /\ NextIter(i + 1) = it + 1
        /\ ~gauth.log[i + 1].ok => gauth.pc = "returned" /\ gauth.err # NoErr

RefusedPass(i) ==
    /\ Len(gauth.log) = i + 1
    /\ GaIs(i + 1, "write", "refuse")
    /\ IsPrefix(gauth.log[i + 1].bytes, << 1, 255 >>)
    /\ gauth.pc = "returned" /\ gauth.conn = "raw"
    /\ errorsIs(gauth.err, "gss")
    /\ \A j \in 1..Len(gauth.log) :
         /\ ~InPhaseB(j)
         /\ GaIs(j, "write", "gssapiMessage") => gauth.log[j].iter # gauth.log[i].iter

C31_ContextLoop ==
    /\ \A i \in Accepts :
         /\ i > 1
         /\ GaIs(i - 1, "read", "gssapiMessage") /\ gauth.log[i - 1].ok
         /\ gauth.log[i - 1].iter = gauth.log[i].iter
         /\ gauth.log[i - 1].bytes[1] = 1 /\ gauth.log[i - 1].bytes[2] = 1
         /\ \A j \in Accepts : j # i => gauth.log[j].iter # gauth.log[i].iter
         /\ IF gauth.log[i].ok THEN AcceptedPass(i) ELSE RefusedPass(i)
    /\ \A j \in 1..Len(gauth.log) :
         GaIs(j, "write", "gssapiMessage") /\ ~InPhaseB(j) =>
            j - 1 \in Accepts /\ gauth.log[j - 1].ok
    /\ gauth.pc \in { "B.read", "B.decode", "B.level", "B.encode", "B.write" } =>
         \E i \in Accepts :
            /\ gauth.log[i].ok
            /\ gauth.log[i].complete \/ gauth.log[i].bytes = << >>

\* a second pass after a token without completion, then the protection phase
C31_Witness ==
    /\ gauth.pc = "B.read" /\ gauth.iter = 2
    /\ \E i \in Accepts :
         /\ gauth.log[i].iter = 1 /\ ~gauth.log[i].complete
         /\ gauth.log[i].bytes = << 8 >>
(* ---------------------------------------------------------------------- *)
(* C32: the protection negotiation returns an error, writes no reply and   *)
(* installs no encapsulated stream when the message is not of type         *)
(* ProtectionNegotiation, when decode fails, when the decoded payload is   *)
(* not exactly one byte, or when accept_protection_level or encode fails;  *)
(* otherwise it writes exactly one GssMessage whose token is encode of the *)
(* agreed level, and auth returns a gssConn wrapping the raw stream.       *)
(* ---------------------------------------------------------------------- *)
PhaseBWrites == { j \in 1..Len(gauth.log) : InPhaseB(j) /\ gauth.log[j].ev = "write" }

\* entry j is a step of the negotiation that the claim says must refuse
Refusing(j) ==
    /\ InPhaseB(j)
    /\ \/ GaIs(j, "read", "gssapiMessage") /\ Len(gauth.log[j].bytes) >= 2
          /\ gauth.log[j].bytes[2] # 2
       \/ gauth.log[j].ev = "call" /\ ~gauth.log[j].ok
       \/ GaIs(j, "call", "Decode") /\ Len(gauth.log[j].bytes) # 1

\* the level accept_protection_level agreed to
AgreedLevel ==
    LET j == CHOOSE j \in 1..Len(gauth.log) : GaIs(j, "call", "AcceptProtectionLevel")
    IN gauth.log[j].bytes

C32_ProtectionNegotiation ==
    /\ \A j \in 1..Len(gauth.log) :
         Refusing(j) =>
            /\ Len(gauth.log) = j
            /\ gauth.pc = "returned" /\ gauth.err # NoErr
            /\ gauth.conn = "raw"
            /\ PhaseBWrites = {}
    /\ \A j \in PhaseBWrites :
         /\ PhaseBWrites = { j }
         /\ GaIs(j, "write", "gssapiMessage")
         /\ GaIs(j - 1, "call", "Encode") /\ gauth.log[j - 1].ok
         /\ GaIs(j - 2, "call", "AcceptProtectionLevel") /\ gauth.log[j - 2].ok
         /\ GaIs(j - 3, "call", "Decode") /\ Len(gauth.log[j - 3].bytes) = 1
         /\ GaIs(j - 4, "read", "gssapiMessage") /\ gauth.log[j - 4].bytes[2] = 2
         /\ IsPrefix(gauth.log[j].bytes,
                     << 1, 2, 0, 2, 200 >> \o AgreedLevel)
         /\ gauth.log[j].ok =>
              /\ gauth.log[j].bytes = << 1, 2, 0, 2, 200 >> \o AgreedLevel
              /\ gauth.pc = "returned" /\ gauth.err = NoErr /\ gauth.conn = "gss"
    /\ gauth.conn = "gss" => \E j \in PhaseBWrites : gauth.log[j].ok
    /\ gauth.pc = "B.write" => PhaseBWrites = {}

\* the client asked for level 1 and the server agreed to it
C32_Witness ==
    /\ gauth.pc = "returned" /\ gauth.conn = "gss"
    /\ AgreedLevel = << 1 >>
    /\ \E j \in PhaseBWrites : gauth.log[j].bytes = << 1, 2, 0, 2, 200, 1 >>
(* ---------------------------------------------------------------------- *)
(* C33: commandRequest.validate accepts a request iff version = 5,         *)
(* reserved = 0, the address type is 0x01, 0x03 or 0x04, the address is    *)
(* non-empty with length 4 for IPv4 and 16 for IPv6, and port # 0; when    *)
(* the request read by getCommand fails validation the engine terminates   *)
(* with no CommandReply written and no host callback invoked.              *)
(* ---------------------------------------------------------------------- *)
\* requests as validate may be handed them, well formed or not
ValidateInputs ==
    [version : { 4, 5 }, commandType : { 1, 9 }, rsv : { 0, 1 },
     addressType : 0..5,
     addr : { << >>, << 97 >>, << 10, 0, 0, 1 >>,
              << 32, 1, 13, 184, 0, 0, 0, 0, 0, 0, 0, 0, 0, 0, 0, 1 >> },
     port : { 0, 1, 8080 }]

Acceptable(c) ==
    /\ c.version = 5
    /\ c.rsv = 0
    /\ c.addressType \in { 1, 3, 4 }
    /\ Len(c.addr) > 0
    /\ c.addressType = 1 => Len(c.addr) = 4
    /\ c.addressType = 4 => Len(c.addr) = 16
    /\ c.port # 0

\* a request that was read whole, as the bytes on the wire tell it
RequestOnWire(b) ==
    [version |-> b[1], commandType |-> b[2], rsv |-> b[3], addressType |-> b[4],
     addr |-> IF b[4] = 3 THEN SubSeq(b, 6, Len(b) - 2) ELSE SubSeq(b, 5, Len(b) - 2),
     port |-> b[Len(b) - 1] * 256 + b[Len(b)]]

C33_ValidateRequest ==
    /\ pc = "getCommand" =>
         \A c \in ValidateInputs : (commandRequestValidate(c) = NoErr) <=> Acceptable(c)
    /\ \A i \in Reads("commandRequest") :
         (trace[i].ok /\ ~Acceptable(RequestOnWire(trace[i].bytes))) =>
            /\ pc = "done" /\ err # NoErr
            /\ Len(trace) = i
            /\ command = ZeroCommand
            /\ Writes("commandReply") = {} /\ CommandCalls = {}

\* a CONNECT request to port 0, read whole and then dropped
C33_Witness ==
    /\ pc = "done"
    /\ \E i \in Reads("commandRequest") :
         /\ trace[i].ok /\ Len(trace) = i
         /\ trace[i].bytes = << 5, 1, 0, 1, 192, 168, 0, 1, 0, 0 >>
(* ---------------------------------------------------------------------- *)
(* C34: for a LoginRequest whose subversion is not 1, or whose username or *)
(* password is empty, usernameAuth.auth returns an error without calling   *)
(* the verify predicate and without writing any LoginReply.                *)
(* ---------------------------------------------------------------------- *)
\* entry i is a login request read whole that the claim says is refused
BadLogin(i) ==
    /\ trace[i].ev = "read" /\ trace[i].name = "loginRequest" /\ trace[i].ok
    /\ LET b == trace[i].bytes
       IN b[1] # 1 \/ b[2] = 0 \/ b[3 + b[2]] = 0

C34_BadLoginRefused ==
    \A i \in 1..Len(trace) :
        BadLogin(i) =>
            /\ Calls("authenticator") = {}
            /\ Writes("loginReply") = {}
            /\ Len(trace) = i
            /\ IsCall(i - 1, "auth") /\ ~trace[i - 1].ok
            /\ pc = "done" /\ err # NoErr
            /\ conn = "raw"

\* user "f" with an empty password
C34_Witness ==
    /\ pc = "done"
    /\ \E i \in 1..Len(trace) :
         BadLogin(i) /\ trace[i].bytes = << 1, 1, 102, 0 >>
(* ---------------------------------------------------------------------- *)
(* C35: after any sequence of Add and Get calls on an lru of capacity N    *)
(* the cached keys are exactly the (at most N) most recently used distinct *)
(* keys: there are never more than N entries, and adding a new key to a    *)
(* full cache evicts exactly the least recently used key; Add and a        *)
(* successful Get both count as a use.                                     *)
(* ---------------------------------------------------------------------- *)
\* the sequence s without the entries of key k
RECURSIVE Without(_, _)
Without(s, k) ==
    IF s = << >> THEN << >>
    ELSE IF Head(s).k = k THEN Without(Tail(s), k)
    ELSE << Head(s) >> \o Without(Tail(s), k)

Holds(s, k) == \E i \in 1..Len(s) : s[i].k = k
ValueIn(s, k) == s[CHOOSE i \in 1..Len(s) : s[i].k = k].v

\* the reference cache: keys and values, the most recently used first,
\* after the first n calls of history h on a cache of capacity cap
RECURSIVE Reference(_, _, _)
Reference(h, n, cap) ==
    IF n = 0 THEN << >>
    ELSE LET before == Reference(h, n - 1, cap)
             e == h[n]
         IN IF e.op = "Add"
            THEN Take(<< [k |-> e.k, v |-> e.v] >> \o Without(before, e.k), cap)
            ELSE IF Holds(before, e.k)
                 THEN << [k |-> e.k, v |-> ValueIn(before, e.k)] >>
                          \o Without(before, e.k)
                 ELSE before

Recent == Reference(lru.hist, Len(lru.hist), lru.size)
RecentBefore == Reference(lru.hist, Len(lru.hist) - 1, lru.size)

KeysOf(s) == { s[i].k : i \in 1..Len(s) }
CachedKeys == { k \in 1..MaxKeys : lru.cache.list[k] # 0 }

\* the last call was an Add of a key that was not cached, on a full cache
AddedToFull ==
    /\ lru.hist # << >>
    /\ lru.hist[Len(lru.hist)].op = "Add"
    /\ ~Holds(RecentBefore, lru.hist[Len(lru.hist)].k)
    /\ Len(RecentBefore) = lru.size

C35_MostRecentlyUsedKept ==
    lru.active =>
        /\ CachedKeys = KeysOf(Recent)
        /\ Cardinality(CachedKeys) <= lru.size
        /\ AddedToFull =>
             CachedKeys = (KeysOf(RecentBefore)
                             \ { RecentBefore[Len(RecentBefore)].k })
                          \cup { lru.hist[Len(lru.hist)].k }

\* capacity 2: key 1, key 2, a Get of key 1, then key 3 evicts key 2
C35_Witness ==
    /\ lru.active /\ lru.size = 2 /\ Len(lru.hist) = 4
    /\ lru.hist[1].op = "Add" /\ lru.hist[1].k = 1
    /\ lru.hist[2].op = "Add" /\ lru.hist[2].k = 2
    /\ lru.hist[3].op = "Get" /\ lru.hist[3].k = 1
    /\ lru.hist[4].op = "Add" /\ lru.hist[4].k = 3
    /\ CachedKeys = { 1, 3 }

(* ---------------------------------------------------------------------- *)
(* C36: lru.Get(k) returns (v, true), v the value of the most recent       *)
(* Add(k, v), iff k is cached, and (zero value, false) otherwise; Add on a *)
(* cached key replaces its value without changing the number of entries or *)
(* evicting a key.                                                         *)
(* ---------------------------------------------------------------------- *)
\* the value of the most recent Add of key k among the first n calls
RECURSIVE LastAdded(_, _, _)
LastAdded(h, n, k) ==
    IF n = 0 THEN 0
    ELSE IF h[n].op = "Add" /\ h[n].k = k THEN h[n].v
    ELSE LastAdded(h, n - 1, k)

LastCall == lru.hist[Len(lru.hist)]

C36_GetAndReplace ==
    (lru.active /\ lru.hist # << >>) =>
        /\ LastCall.op = "Get" =>
             /\ LastCall.ok <=> Holds(RecentBefore, LastCall.k)
             /\ LastCall.ok =>
                   LastCall.v = LastAdded(lru.hist, Len(lru.hist), LastCall.k)
             /\ ~LastCall.ok => LastCall.v = 0
        /\ (LastCall.op = "Add" /\ Holds(RecentBefore, LastCall.k)) =>
             /\ CachedKeys = KeysOf(RecentBefore)
             /\ lru.cache.nodes[lru.cache.list[LastCall.k]].value = LastCall.v

\* key 1 added with 1, added again with 2, and read back as 2
C36_Witness ==
    /\ lru.active /\ Len(lru.hist) = 3
    /\ lru.hist[1] = [op |-> "Add", k |-> 1, v |-> 1, ok |-> TRUE]
    /\ lru.hist[2] = [op |-> "Add", k |-> 1, v |-> 2, ok |-> TRUE]
    /\ lru.hist[3] = [op |-> "Get", k |-> 1, v |-> 2, ok |-> TRUE]
(* ---------------------------------------------------------------------- *)
(* C37: syncLRU is safe for concurrent use: every interleaving of          *)
(* concurrent Get and Add calls from different goroutines is equivalent to *)
(* some sequential order of those calls, and no two calls ever modify the  *)
(* recency list or the map at the same time: a Get, which moves its node   *)
(* to the front, excludes every other Get and Add.                         *)
(* ---------------------------------------------------------------------- *)
\* goroutine x is inside lru.Get or lru.Add
InCache(x) == lru.g[x].pc \notin { "idle", "done", "panic" }

OneAtATime ==
    \A x \in Goroutines, y \in Goroutines : (InCache(x) /\ InCache(y)) => x = y

\* the keys of the recency list, walked from the rear along next: the order
\* in which add evicts them
RECURSIVE ListFrom(_, _, _)
ListFrom(c, node, fuel) ==
    IF node = 0 \/ fuel = 0 THEN << >>
    ELSE << c.nodes[node].key >> \o ListFrom(c, c.nodes[node].next, fuel - 1)

\* the calls that filled the cache before the goroutines started
FilledBy == [i \in 1..lru.filled |-> [op |-> "Add", k |-> i, v |-> 1, ok |-> TRUE]]

\* the completed calls in every order
Orders ==
    { [i \in 1..Len(lru.hist) |-> lru.hist[p[i]]] :
        p \in { q \in [1..Len(lru.hist) -> 1..Len(lru.hist)] :
                  \A i, j \in 1..Len(lru.hist) : q[i] = q[j] => i = j } }

\* the results of the calls and the cache left behind are those of the
\* calls made one after another in this order
SequentialAs(order) ==
    LET h == FilledBy \o order
        ref(n) == Reference(h, n, lru.size)
        end == ref(Len(h))
    IN /\ \A n \in 1..Len(h) :
            h[n].op = "Get" =>
               /\ h[n].ok <=> Holds(ref(n - 1), h[n].k)
               /\ h[n].ok => h[n].v = ValueIn(ref(n - 1), h[n].k)
       /\ ListFrom(lru.cache, lru.cache.rear, MaxKeys + 1)
             = [i \in 1..Len(end) |-> end[Len(end) + 1 - i].k]
       /\ CachedKeys = KeysOf(end)
       /\ \A i \in 1..Len(end) :
             lru.cache.nodes[lru.cache.list[end[i].k]].value = end[i].v

NoCallRunning == \A x \in Goroutines : lru.g[x].pc \in { "idle", "done" }

SyncUse == lru.active /\ "mu" \in DOMAIN lru

C37_SafeForConcurrentUse ==
    SyncUse =>
        /\ OneAtATime
        /\ ~lru.panicked
        /\ NoCallRunning => \E order \in Orders : SequentialAs(order)

(* ---------------------------------------------------------------------- *)
(* C39: gssConn.Write(p) on success returns exactly len(p), and on error   *)
(* returns a count of payload bytes between 0 and len(p): the returned     *)
(* count never includes framing or encoding overhead and never exceeds     *)
(* len(p).                                                                 *)
(* ---------------------------------------------------------------------- *)
WriteReturned == gss.active /\ gss.wpc = "returned"

C39_WriteCountsPayload ==
    WriteReturned =>
        /\ gss.werr = NoErr => gss.wn = Len(gss.p0)
        /\ 0 <= gss.wn /\ gss.wn <= Len(gss.p0)

(* ---------------------------------------------------------------------- *)
(* C38: every socket the engine acquires during a connection (the target   *)
(* connection returned by the CONNECT callback, the BIND listener, and the *)
(* peer connection returned by accept) is eventually closed on every path, *)
(* including the paths where writing the success reply fails or the bound  *)
(* or peer address cannot be parsed.                                       *)
(* ---------------------------------------------------------------------- *)
\* the last stage has returned nil: no stage runs after it, so a socket that
\* is open now is never closed by the engine
EngineReturned == pc = "done"

C38_AcquiredSocketsClosed ==
    EngineReturned => (socks.target # "open" /\ socks.listener # "open")

(* ---------------------------------------------------------------------- *)
(* C40: whenever the engine enters failCommand, reply_status is a failure  *)
(* status (non-zero), and a CommandReply with status Succeeded is written  *)
(* only after the CONNECT callback returned a connection or the BIND       *)
(* callback returned a listener; a transition that does not fail leaves    *)
(* reply_status unchanged.                                                 *)
(* ---------------------------------------------------------------------- *)
\* the replies of trace t whose REP byte reached the client as Succeeded
SucceededReplies(t) ==
    { i \in 1..Len(t) : /\ t[i].ev = "write" /\ t[i].name = "commandReply"
                        /\ Len(t[i].bytes) >= 2 /\ t[i].bytes[2] = succeeded }

\* a connection or a listener was handed to the engine before event i of t
AcquiredBefore(t, i) ==
    \E j \in 1..(i - 1) :
        /\ t[j].ev = "call" /\ t[j].name \in { "connect", "listen" }
        /\ t[j].ok

C40_ReplyStatus ==
    [][/\ pc' = "failCommand" => status' # succeeded
       /\ pc' # "failCommand" => status' = status
       /\ \A i \in SucceededReplies(trace') : AcquiredBefore(trace', i)]_vars

\* BIND: the listener is returned, the first reply says Succeeded, Accept
\* fails and the engine is in failCommand with sockFailure
C40_Witness ==
    /\ pc = "failCommand" /\ status = sockFailure
    /\ SucceededReplies(trace) # {}
    /\ \E a \in Calls("Accept") : ~trace[a].ok

====
